---- MODULE Spec2Model ----
(***************************************************************************)
(* Model of the chip-input repository: the controlled ChipInput component  *)
(* (presentation/components/ChipInput.tsx), the Chip entity                *)
(* (domain/entities/Chip.ts), the demo host (App.tsx) and the clipboard    *)
(* serializer (application/serialization/ChipClipboardSerializer.ts).      *)
(*                                                                         *)
(* A JavaScript string is a sequence of one-character strings.  A Chip is  *)
(* a record whose optional fields (value, selected, disabled) may be       *)
(* missing from its domain, as in the TypeScript interface.                *)
(***************************************************************************)
EXTENDS Integers, Sequences, FiniteSets, TLC

VARIABLES
    value,        \* the host's chip list, passed as the `value` prop
    inputValue,   \* ChipInput's useState('') text of the input field
    focused,      \* whether the <input> element holds the DOM focus
    props,        \* the props the host renders the component with
    clipboard,    \* the text held by the system clipboard
    uuidCount,    \* number of identifiers crypto.randomUUID() has issued
    last,         \* the last event dispatched and what its handlers did
    before,       \* the event before the last (callback specification only)
    decoded,      \* the last result of ChipClipboardSerializer.deserialize
    idle          \* the page's other ChipInput, which the events do not reach

vars ==
    <<value, inputValue, focused, props, clipboard, uuidCount, last, before,
      decoded, idle>>

-----------------------------------------------------------------------------
(* Bounds *)

MaxInit == 2        \* longest list the host starts with
MaxChips == 3       \* longest list the model lets the host hold
MaxInputLen == 2    \* longest text typed into the input field
MaxUuid == 2        \* identifiers the model lets randomUUID issue
MaxCodecChips == 2  \* longest list handed to the serializer
MaxCodecLen == 2    \* longest label or value handed to the serializer
MaxPlainLen == 5    \* longest unmarked text handed to the deserializer

-----------------------------------------------------------------------------
(* Strings *)

Whitespace == {" ", "\t", "\n"}

RECURSIVE trimStart(_)
trimStart(s) ==
    IF s # <<>> /\ Head(s) \in Whitespace THEN trimStart(Tail(s)) ELSE s

RECURSIVE trimEnd(_)
trimEnd(s) ==
    IF s # <<>> /\ s[Len(s)] \in Whitespace
    THEN trimEnd(SubSeq(s, 1, Len(s) - 1))
    ELSE s

\* String.prototype.trim
trim(s) == trimEnd(trimStart(s))

\* String.prototype.startsWith
startsWith(s, prefix) ==
    /\ Len(s) >= Len(prefix)
    /\ SubSeq(s, 1, Len(prefix)) = prefix

-----------------------------------------------------------------------------
(* Chip entity *)

\* an object field read: undefined when the field is missing
Has(obj, f) == f \in DOMAIN obj

\* JavaScript truthiness of an optional boolean field
Truthy(chip, f) == Has(chip, f) /\ chip[f]

\* { ...chip, [f]: v }
Spread(chip, f, v) ==
    [k \in DOMAIN chip \cup {f} |-> IF k = f THEN v ELSE chip[k]]

\* the n-th identifier issued by crypto.randomUUID(): identifiers are fresh,
\* none is issued twice and none equals an identifier chosen by the host
randomUUID(n) == <<"u", "u", "i", "d", "-">> \o <<ToString(n)>>

createChip(label, id) ==
    [id |-> id, label |-> label, value |-> label,
     selected |-> FALSE, disabled |-> FALSE]

-----------------------------------------------------------------------------
(* JSON.stringify / JSON.parse over sequences of characters *)

Quote == "\""
Backslash == "\\"

\* the characters JSON.stringify writes as a two-character escape
EscapeOf(c) ==
    CASE c = Quote -> <<Backslash, Quote>>
      [] c = Backslash -> <<Backslash, Backslash>>
      [] c = "\n" -> <<Backslash, "n">>
      [] c = "\t" -> <<Backslash, "t">>
      [] OTHER -> <<c>>

RECURSIVE EscapeChars(_)
EscapeChars(s) ==
    IF s = <<>> THEN <<>> ELSE EscapeOf(Head(s)) \o EscapeChars(Tail(s))

\* JSON.stringify of a string
stringifyString(s) == <<Quote>> \o EscapeChars(s) \o <<Quote>>

\* parsed JSON values
JNull == [t |-> "null"]
JBool(b) == [t |-> "bool", v |-> b]
JNum(m, e) == [t |-> "num", m |-> m, e |-> e]      \* the number m * 10^e
JStr(s) == [t |-> "str", v |-> s]
JArr(a) == [t |-> "arr", v |-> a]
JObj(o) == [t |-> "obj", v |-> o]                   \* o: key -> value

ParseFail == [ok |-> FALSE, v |-> JNull, i |-> 0]
Parsed(v, i) == [ok |-> TRUE, v |-> v, i |-> i]

JsonWhitespace == {" ", "\t", "\n", "\r"}
Digits == {"0", "1", "2", "3", "4", "5", "6", "7", "8", "9"}
DigitVal(c) ==
    CASE c = "0" -> 0 [] c = "1" -> 1 [] c = "2" -> 2 [] c = "3" -> 3
      [] c = "4" -> 4 [] c = "5" -> 5 [] c = "6" -> 6 [] c = "7" -> 7
      [] c = "8" -> 8 [] c = "9" -> 9

At(t, i) == IF i >= 1 /\ i <= Len(t) THEN t[i] ELSE "EOF"

RECURSIVE skipWs(_, _)
skipWs(t, i) == IF At(t, i) \in JsonWhitespace THEN skipWs(t, i + 1) ELSE i

\* the characters of t from i that match the literal word w
matchWord(t, i, w) ==
    i + Len(w) - 1 <= Len(t) /\ SubSeq(t, i, i + Len(w) - 1) = w

\* index after the longest run of digits starting at i
RECURSIVE skipDigits(_, _)
skipDigits(t, i) == IF At(t, i) \in Digits THEN skipDigits(t, i + 1) ELSE i

RECURSIVE digitsValue(_, _, _, _)
digitsValue(t, i, j, acc) ==
    IF i >= j THEN acc ELSE digitsValue(t, i + 1, j, acc * 10 + DigitVal(t[i]))

\* number: -? (0 | [1-9][0-9]*) (. [0-9]+)? ([eE] [+-]? [0-9]+)?
parseNumber(t, i) ==
    LET neg == At(t, i) = "-"
        i0 == IF neg THEN i + 1 ELSE i
        i1 == IF At(t, i0) = "0" THEN i0 + 1 ELSE skipDigits(t, i0)
        hasFrac == At(t, i1) = "."
        f0 == i1 + 1
        f1 == IF hasFrac THEN skipDigits(t, f0) ELSE i1
        hasExp == At(t, f1) \in {"e", "E"}
        s0 == f1 + 1
        expNeg == At(t, s0) = "-"
        e0 == IF At(t, s0) \in {"+", "-"} THEN s0 + 1 ELSE s0
        e1 == IF hasExp THEN skipDigits(t, e0) ELSE f1
        intPart == digitsValue(t, i0, i1, 0)
        mant == IF hasFrac THEN digitsValue(t, f0, f1, intPart) ELSE intPart
        fracLen == IF hasFrac THEN f1 - f0 ELSE 0
        expAbs == IF hasExp THEN digitsValue(t, e0, e1, 0) ELSE 0
        exp == IF expNeg THEN 0 - expAbs ELSE expAbs
    IN  IF i1 = i0 \/ (hasFrac /\ f1 = f0) \/ (hasExp /\ e1 = e0)
        THEN ParseFail
        ELSE Parsed(JNum(IF neg THEN 0 - mant ELSE mant, exp - fracLen), e1)

RECURSIVE Pow10(_)
Pow10(n) == IF n <= 0 THEN 1 ELSE 10 * Pow10(n - 1)

\* the JavaScript comparison  num === k  for an integer k
NumEquals(num, k) ==
    IF num.e >= 0 THEN num.m * Pow10(num.e) = k
    ELSE num.m = k * Pow10(0 - num.e)

HexDigits == Digits \cup {"a", "b", "c", "d", "e", "f", "A", "B", "C", "D", "E", "F"}

\* the character a \uXXXX escape denotes
CodeUnit(h) ==
    CASE h = <<"0", "0", "2", "2">> -> Quote
      [] h = <<"0", "0", "5", "c">> \/ h = <<"0", "0", "5", "C">> -> Backslash
      [] h = <<"0", "0", "2", "c">> \/ h = <<"0", "0", "2", "C">> -> ","
      [] h = <<"0", "0", "2", "0">> -> " "
      [] h = <<"0", "0", "6", "1">> -> "a"
      [] h = <<"0", "0", "6", "2">> -> "b"
      [] OTHER -> "\\u" \o h[1] \o h[2] \o h[3] \o h[4]

\* the body of a string literal from i (after the opening quote)
RECURSIVE parseChars(_, _, _)
parseChars(t, i, acc) ==
    LET c == At(t, i) IN
    IF c = "EOF" \/ c \in {"\n", "\t", "\r"} THEN ParseFail
    ELSE IF c = Quote THEN Parsed(JStr(acc), i + 1)
    ELSE IF c = Backslash THEN
        LET d == At(t, i + 1) IN
        CASE d = Quote -> parseChars(t, i + 2, Append(acc, Quote))
          [] d = Backslash -> parseChars(t, i + 2, Append(acc, Backslash))
          [] d = "/" -> parseChars(t, i + 2, Append(acc, "/"))
          [] d = "n" -> parseChars(t, i + 2, Append(acc, "\n"))
          [] d = "t" -> parseChars(t, i + 2, Append(acc, "\t"))
          [] d = "r" -> parseChars(t, i + 2, Append(acc, "\r"))
          [] d = "b" -> parseChars(t, i + 2, Append(acc, "<BS>"))
          [] d = "f" -> parseChars(t, i + 2, Append(acc, "<FF>"))
          [] d = "u" ->
                IF i + 5 <= Len(t) /\ \A k \in 2..5 : t[i + k] \in HexDigits
                THEN parseChars(t, i + 6,
                                Append(acc, CodeUnit(SubSeq(t, i + 2, i + 5))))
                ELSE ParseFail
          [] OTHER -> ParseFail
    ELSE parseChars(t, i + 1, Append(acc, c))

RECURSIVE parseValue(_, _)
RECURSIVE parseElements(_, _, _)
RECURSIVE parseMembers(_, _, _)

\* the elements of an array from i (after "[" or after a ",")
parseElements(t, i, acc) ==
    LET e == parseValue(t, i) IN
    IF ~e.ok THEN ParseFail
    ELSE LET j == skipWs(t, e.i) IN
         IF At(t, j) = "," THEN parseElements(t, j + 1, Append(acc, e.v))
         ELSE IF At(t, j) = "]" THEN Parsed(JArr(Append(acc, e.v)), j + 1)
         ELSE ParseFail

\* the members of an object from i (after "{" or after a ","); a repeated
\* key keeps its last value
parseMembers(t, i, acc) ==
    LET k0 == skipWs(t, i) IN
    IF At(t, k0) # Quote THEN ParseFail
    ELSE LET key == parseChars(t, k0 + 1, <<>>) IN
         IF ~key.ok THEN ParseFail
         ELSE LET c == skipWs(t, key.i) IN
              IF At(t, c) # ":" THEN ParseFail
              ELSE LET m == parseValue(t, c + 1) IN
                   IF ~m.ok THEN ParseFail
                   ELSE LET j == skipWs(t, m.i)
                            obj == (key.v.v :> m.v) @@ acc
                        IN  IF At(t, j) = "," THEN parseMembers(t, j + 1, obj)
                            ELSE IF At(t, j) = "}" THEN Parsed(JObj(obj), j + 1)
                            ELSE ParseFail

parseValue(t, i0) ==
    LET i == skipWs(t, i0)
        c == At(t, i)
    IN  CASE c = "{" ->
                IF At(t, skipWs(t, i + 1)) = "}"
                THEN Parsed(JObj(<<>>), skipWs(t, i + 1) + 1)
                ELSE parseMembers(t, i + 1, <<>>)
          [] c = "[" ->
                IF At(t, skipWs(t, i + 1)) = "]"
                THEN Parsed(JArr(<<>>), skipWs(t, i + 1) + 1)
                ELSE parseElements(t, i + 1, <<>>)
          [] c = Quote -> parseChars(t, i + 1, <<>>)
          [] c = "t" -> IF matchWord(t, i, <<"t", "r", "u", "e">>)
                        THEN Parsed(JBool(TRUE), i + 4) ELSE ParseFail
          [] c = "f" -> IF matchWord(t, i, <<"f", "a", "l", "s", "e">>)
                        THEN Parsed(JBool(FALSE), i + 5) ELSE ParseFail
          [] c = "n" -> IF matchWord(t, i, <<"n", "u", "l", "l">>)
                        THEN Parsed(JNull, i + 4) ELSE ParseFail
          [] c = "-" \/ c \in Digits -> parseNumber(t, i)
          [] OTHER -> ParseFail

\* JSON.parse: ok = FALSE stands for the SyntaxError it throws
JSONparse(t) ==
    LET r == parseValue(t, 1) IN
    IF r.ok /\ skipWs(t, r.i) = Len(t) + 1 THEN r ELSE ParseFail

-----------------------------------------------------------------------------
(* ChipClipboardSerializer *)

CLIPBOARD_MARKER ==
    <<"_", "_", "C", "H", "I", "P", "I", "N", "P", "U", "T", "_", "_", ":">>
CLIPBOARD_VERSION == 1

\* stringifyChip writing the selection along with id, label and value
stringifyChip_withSelected(chip) ==
    <<"{">> \o stringifyString(<<"i", "d">>) \o <<":">>
            \o stringifyString(chip.id)
    \o <<",">> \o stringifyString(<<"l", "a", "b", "e", "l">>) \o <<":">>
            \o stringifyString(chip.label)
    \o (IF Has(chip, "value")
        THEN <<",">> \o stringifyString(<<"v", "a", "l", "u", "e">>) \o <<":">>
                     \o stringifyString(chip.value)
        ELSE <<>>)
    \o (IF Truthy(chip, "selected")
        THEN <<",">> \o stringifyString(<<"s", "e", "l", "e", "c", "t", "e", "d">>)
                     \o <<":", "t", "r", "u", "e">>
        ELSE <<>>)
    \o <<"}">>

\* JSON.stringify({id, label, value}): an undefined value is left out
stringifyChip(chip) ==
    <<"{">> \o stringifyString(<<"i", "d">>) \o <<":">>
            \o stringifyString(chip.id)
    \o <<",">> \o stringifyString(<<"l", "a", "b", "e", "l">>) \o <<":">>
            \o stringifyString(chip.label)
    \o (IF Has(chip, "value")
        THEN <<",">> \o stringifyString(<<"v", "a", "l", "u", "e">>) \o <<":">>
                     \o stringifyString(chip.value)
        ELSE <<>>)
    \o <<"}">>

RECURSIVE stringifyChips(_)
stringifyChips(chips) ==
    IF chips = <<>> THEN <<>>
    ELSE stringifyChip(Head(chips))
         \o (IF Len(chips) > 1 THEN <<",">> ELSE <<>>)
         \o stringifyChips(Tail(chips))

\* the number an identifier ends with
IdRank(chip) == CHOOSE k \in 0..9 : ToString(k) = chip.id[Len(chip.id)]

ByIdRank(a, b) == IdRank(a) < IdRank(b)

\* serialize writing the chips in the order of their identifiers
serialize_sortedById(chips) ==
    CLIPBOARD_MARKER
    \o <<"{">> \o stringifyString(<<"v", "e", "r", "s", "i", "o", "n">>)
    \o <<":", ToString(CLIPBOARD_VERSION), ",">>
    \o stringifyString(<<"c", "h", "i", "p", "s">>) \o <<":", "[">>
    \o stringifyChips(SortSeq(chips, ByIdRank)) \o <<"]", "}">>

serialize(chips) ==
    CLIPBOARD_MARKER
    \o <<"{">> \o stringifyString(<<"v", "e", "r", "s", "i", "o", "n">>)
    \o <<":", ToString(CLIPBOARD_VERSION), ",">>
    \o stringifyString(<<"c", "h", "i", "p", "s">>) \o <<":", "[">>
    \o stringifyChips(chips) \o <<"]", "}">>

\* the result of deserialize: ok = FALSE is the null return, raised = TRUE
\* an exception leaving the call
DecodeNull(log) ==
    [ok |-> FALSE, chips |-> <<>>, log |-> log, uuids |-> 0, raised |-> FALSE]
Decoded(chips) ==
    [ok |-> TRUE, chips |-> chips, log |-> "none", uuids |-> Len(chips),
     raised |-> FALSE]

\* an exception thrown after uuids identifiers were drawn
Raised(uuids) ==
    [ok |-> FALSE, chips |-> <<>>, log |-> "none", uuids |-> uuids,
     raised |-> TRUE]

\* catch (error) { console.error(...); return null; }
catchError(r) ==
    IF r.raised THEN [DecodeNull("error") EXCEPT !.uuids = r.uuids] ELSE r

\* obj.key for a parsed JSON value: defined only on objects holding the key
HasProp(v, key) == v.t = "obj" /\ key \in DOMAIN v.v

\* a parsed JSON value as the field of a chip: a string is its characters
FieldOf(v) == IF v.t = "str" THEN v.v ELSE v

\* JavaScript falsiness of a parsed JSON value
Falsy(v) ==
    \/ v.t = "null"
    \/ v.t = "bool" /\ ~v.v
    \/ v.t = "num" /\ v.m = 0
    \/ v.t = "str" /\ v.v = <<>>

\* reconstructChip keeping the serialized identifier
reconstructChip_keepId(chipData, id) ==
    LET hasLabel == HasProp(chipData, <<"l", "a", "b", "e", "l">>)
        hasValue == /\ HasProp(chipData, <<"v", "a", "l", "u", "e">>)
                    /\ chipData.v[<<"v", "a", "l", "u", "e">>].t # "null"
        base == [id |-> IF HasProp(chipData, <<"i", "d">>)
                        THEN FieldOf(chipData.v[<<"i", "d">>]) ELSE id,
                 selected |-> FALSE, disabled |-> FALSE]
        withLabel ==
            IF hasLabel
            THEN ("label" :> FieldOf(chipData.v[<<"l", "a", "b", "e", "l">>])) @@ base
            ELSE base
    IN  IF hasValue
        THEN ("value" :> FieldOf(chipData.v[<<"v", "a", "l", "u", "e">>])) @@ withLabel
        ELSE IF hasLabel
        THEN ("value" :> FieldOf(chipData.v[<<"l", "a", "b", "e", "l">>])) @@ withLabel
        ELSE withLabel

\* reconstructChip taking the value from the label in every case
reconstructChip_ignoresValue(chipData, id) ==
    LET hasLabel == HasProp(chipData, <<"l", "a", "b", "e", "l">>)
        base == [id |-> id, selected |-> FALSE, disabled |-> FALSE]
    IN  IF hasLabel
        THEN ("value" :> FieldOf(chipData.v[<<"l", "a", "b", "e", "l">>]))
             @@ ("label" :> FieldOf(chipData.v[<<"l", "a", "b", "e", "l">>]))
             @@ base
        ELSE base

\* the chip reconstructed from one element of data.chips
reconstructChip(chipData, id) ==
    LET hasLabel == HasProp(chipData, <<"l", "a", "b", "e", "l">>)
        hasValue == /\ HasProp(chipData, <<"v", "a", "l", "u", "e">>)
                    /\ chipData.v[<<"v", "a", "l", "u", "e">>].t # "null"
        base == [id |-> id, selected |-> FALSE, disabled |-> FALSE]
        withLabel ==
            IF hasLabel
            THEN ("label" :> FieldOf(chipData.v[<<"l", "a", "b", "e", "l">>])) @@ base
            ELSE base
    IN  IF hasValue
        THEN ("value" :> FieldOf(chipData.v[<<"v", "a", "l", "u", "e">>])) @@ withLabel
        ELSE IF hasLabel
        THEN ("value" :> FieldOf(chipData.v[<<"l", "a", "b", "e", "l">>])) @@ withLabel
        ELSE withLabel

\* reconstructChips giving each chip the identifier it was serialized
\* under, when it has one
reconstructChips_reusesIds(parsed, n) ==
    LET data == parsed.v
        version == <<"v", "e", "r", "s", "i", "o", "n">>
        chips == <<"c", "h", "i", "p", "s">>
    IN  IF ~parsed.ok THEN DecodeNull("error")
        ELSE IF \/ Falsy(data)
                \/ ~(HasProp(data, version) /\ data.v[version].t = "num")
                \/ ~(HasProp(data, chips) /\ data.v[chips].t = "arr")
        THEN DecodeNull("none")
        ELSE IF ~NumEquals(data.v[version], CLIPBOARD_VERSION)
        THEN DecodeNull("warn")
        ELSE LET elems == data.v[chips].v IN
             IF \E k \in DOMAIN elems : elems[k].t = "null"
             THEN DecodeNull("error")
             ELSE Decoded([k \in DOMAIN elems |->
                             reconstructChip_keepId(elems[k],
                                                    randomUUID(n + k))])

\* reconstructChips returning null for an empty array of chips, as the
\* plain-text reading does
reconstructChips_emptyIsNull(parsed, n) ==
    LET data == parsed.v
        version == <<"v", "e", "r", "s", "i", "o", "n">>
        chips == <<"c", "h", "i", "p", "s">>
    IN  IF ~parsed.ok THEN DecodeNull("error")
        ELSE IF \/ Falsy(data)
                \/ ~(HasProp(data, version) /\ data.v[version].t = "num")
                \/ ~(HasProp(data, chips) /\ data.v[chips].t = "arr")
        THEN DecodeNull("none")
        ELSE IF ~NumEquals(data.v[version], CLIPBOARD_VERSION)
        THEN DecodeNull("warn")
        ELSE LET elems == data.v[chips].v IN
             IF elems = <<>> \/ \E k \in DOMAIN elems : elems[k].t = "null"
             THEN DecodeNull("error")
             ELSE Decoded([k \in DOMAIN elems |->
                             reconstructChip(elems[k], randomUUID(n + k))])

\* the positions of the elements of data.chips that are null
NullElements(elems) == {k \in DOMAIN elems : elems[k].t = "null"}

\* the try block of deserializeChipInputFormat from the point where
\* JSON.parse has returned or thrown; n identifiers have been issued before
\* the call
tryReconstructChips(parsed, n) ==
    LET data == parsed.v
        version == <<"v", "e", "r", "s", "i", "o", "n">>
        chips == <<"c", "h", "i", "p", "s">>
    IN  IF ~parsed.ok THEN Raised(0)
        ELSE IF \/ Falsy(data)
                \/ ~(HasProp(data, version) /\ data.v[version].t = "num")
                \/ ~(HasProp(data, chips) /\ data.v[chips].t = "arr")
        THEN DecodeNull("none")
        ELSE IF ~NumEquals(data.v[version], CLIPBOARD_VERSION)
        THEN DecodeNull("warn")
        ELSE LET elems == data.v[chips].v IN
             \* reading .label of null throws a TypeError once the id of
             \* that element has been drawn
             IF NullElements(elems) # {}
             THEN Raised(CHOOSE k \in NullElements(elems) :
                            \A j \in NullElements(elems) : k <= j)
             ELSE Decoded([k \in DOMAIN elems |->
                             reconstructChip(elems[k], randomUUID(n + k))])

\* reconstructChips without the catch block
reconstructChips_noCatch(parsed, n) == tryReconstructChips(parsed, n)

\* deserializeChipInputFormat from the point where JSON.parse has returned
\* or thrown: the try block, then the catch
reconstructChips(parsed, n) == catchError(tryReconstructChips(parsed, n))

deserializeChipInputFormat(clipboardData, n) ==
    reconstructChips(JSONparse(SubSeq(clipboardData, Len(CLIPBOARD_MARKER) + 1,
                                      Len(clipboardData))), n)

\* String.prototype.split(sep) for a one-character separator
RECURSIVE splitFrom(_, _, _)
splitFrom(s, sep, cur) ==
    IF s = <<>> THEN <<cur>>
    ELSE IF Head(s) = sep THEN <<cur>> \o splitFrom(Tail(s), sep, <<>>)
    ELSE splitFrom(Tail(s), sep, Append(cur, Head(s)))

split(s, sep) == splitFrom(s, sep, <<>>)

NonEmpty(label) == Len(label) > 0

\* deserializePlainTextFallback without the trim of the labels
deserializePlainTextFallback_untrimmed(clipboardData, n) ==
    LET parts == split(clipboardData, ",")
        labels == SelectSeq(parts, NonEmpty)
    IN  IF Len(labels) = 0 THEN DecodeNull("none")
        ELSE Decoded([k \in DOMAIN labels |->
                        [id |-> randomUUID(n + k), label |-> labels[k],
                         value |-> labels[k], selected |-> FALSE,
                         disabled |-> FALSE]])

\* deserializePlainTextFallback splitting on blanks as on commas
deserializePlainTextFallback_splitsOnBlank(clipboardData, n) ==
    LET parts == split([i \in DOMAIN clipboardData |->
                          IF clipboardData[i] = " " THEN ","
                          ELSE clipboardData[i]], ",")
        labels == SelectSeq([k \in DOMAIN parts |-> trim(parts[k])], NonEmpty)
    IN  IF Len(labels) = 0 THEN DecodeNull("none")
        ELSE Decoded([k \in DOMAIN labels |->
                        [id |-> randomUUID(n + k), label |-> labels[k],
                         value |-> labels[k], selected |-> FALSE,
                         disabled |-> FALSE]])

deserializePlainTextFallback(clipboardData, n) ==
    LET parts == split(clipboardData, ",")
        labels == SelectSeq([k \in DOMAIN parts |-> trim(parts[k])], NonEmpty)
    IN  IF Len(labels) = 0 THEN DecodeNull("none")
        ELSE Decoded([k \in DOMAIN labels |->
                        [id |-> randomUUID(n + k), label |-> labels[k],
                         value |-> labels[k], selected |-> FALSE,
                         disabled |-> FALSE]])

\* deserialize trying the plain-text reading when the marked one fails
deserialize_fallsBack(clipboardData, n) ==
    IF /\ startsWith(clipboardData, CLIPBOARD_MARKER)
       /\ deserializeChipInputFormat(clipboardData, n).ok
    THEN deserializeChipInputFormat(clipboardData, n)
    ELSE deserializePlainTextFallback(clipboardData, n)

deserialize(clipboardData, n) ==
    IF startsWith(clipboardData, CLIPBOARD_MARKER)
    THEN deserializeChipInputFormat(clipboardData, n)
    ELSE deserializePlainTextFallback(clipboardData, n)

RECURSIVE join(_, _)
join(strs, sep) ==
    IF strs = <<>> THEN <<>>
    ELSE IF Len(strs) = 1 THEN Head(strs)
    ELSE Head(strs) \o sep \o join(Tail(strs), sep)

\* toPlainText joining the labels with a comma and no blank
toPlainText_commaOnly(chips) ==
    join([k \in DOMAIN chips |-> chips[k].label], <<",">>)

toPlainText(chips) ==
    join([k \in DOMAIN chips |-> chips[k].label], <<",", " ">>)

\* isChipInputFormat overlooking whitespace before the marker
isChipInputFormat_trimmed(clipboardData) ==
    startsWith(trim(clipboardData), CLIPBOARD_MARKER)

isChipInputFormat(clipboardData) == startsWith(clipboardData, CLIPBOARD_MARKER)

-----------------------------------------------------------------------------
(* What one event does: the callbacks its handlers invoke, in call order *)

NoEffect ==
    [onChange |-> <<>>,         \* lists passed to props.onChange
     setInputValue |-> <<>>,    \* texts passed to setInputValue
     onAdd |-> <<>>,            \* texts passed to props.onAdd
     onCopy |-> <<>>,           \* lists passed to props.onCopy
     onPaste |-> <<>>,          \* texts passed to props.onPaste
     preventDefault |-> FALSE,  \* event.preventDefault() was called
     focus |-> FALSE,           \* inputRef.current.focus() was called
     written |-> <<>>,          \* contents stored into the value array itself
     uuids |-> 0]               \* identifiers drawn from randomUUID

\* e1 followed by e2 within the same event dispatch
Then(e1, e2) ==
    [onChange |-> e1.onChange \o e2.onChange,
     setInputValue |-> e1.setInputValue \o e2.setInputValue,
     onAdd |-> e1.onAdd \o e2.onAdd,
     onCopy |-> e1.onCopy \o e2.onCopy,
     onPaste |-> e1.onPaste \o e2.onPaste,
     preventDefault |-> e1.preventDefault \/ e2.preventDefault,
     focus |-> e1.focus \/ e2.focus,
     written |-> e1.written \o e2.written,
     uuids |-> e1.uuids + e2.uuids]

Emit(chips) == [NoEffect EXCEPT !.onChange = <<chips>>]
SetInput(text) == [NoEffect EXCEPT !.setInputValue = <<text>>]
PreventDefault == [NoEffect EXCEPT !.preventDefault = TRUE]

-----------------------------------------------------------------------------
(* ChipInput: the callbacks of one render.  S is the render's snapshot     *)
(* [value, inputValue, focused, props] that every callback closes over.    *)

IsSelected(chip) == Truthy(chip, "selected")

selectedChips(S) == SelectSeq(S.value, IsSelected)

\* selectAllChips leaving disabled chips alone
selectAllChips_skipsDisabled(S) ==
    Emit([i \in DOMAIN S.value |->
            IF Truthy(S.value[i], "disabled") THEN S.value[i]
            ELSE Spread(S.value[i], "selected", TRUE)])

selectAllChips(S) ==
    Emit([i \in DOMAIN S.value |-> Spread(S.value[i], "selected", TRUE)])

\* clearSelection without the early return
clearSelection_noShortCircuit(S) ==
    Emit([i \in DOMAIN S.value |-> Spread(S.value[i], "selected", FALSE)])

\* clearSelection leaving disabled chips alone
clearSelection_skipsDisabled(S) ==
    IF Len(selectedChips(S)) = 0 THEN NoEffect
    ELSE Emit([i \in DOMAIN S.value |->
                 IF Truthy(S.value[i], "disabled") THEN S.value[i]
                 ELSE Spread(S.value[i], "selected", FALSE)])

clearSelection(S) ==
    IF Len(selectedChips(S)) = 0 THEN NoEffect
    ELSE Emit([i \in DOMAIN S.value |-> Spread(S.value[i], "selected", FALSE)])

\* toggleChipSelection never clearing the other chips
toggleChipSelection_keepsOthers(S, chipId, multiSelect) ==
    Emit([i \in DOMAIN S.value |->
            IF S.value[i].id = chipId
            THEN Spread(S.value[i], "selected", ~IsSelected(S.value[i]))
            ELSE S.value[i]])

\* toggleChipSelection clearing the other chips even when multi-selecting
toggleChipSelection_alwaysClears(S, chipId, multiSelect) ==
    Emit([i \in DOMAIN S.value |->
            IF S.value[i].id = chipId
            THEN Spread(S.value[i], "selected", ~IsSelected(S.value[i]))
            ELSE Spread(S.value[i], "selected", FALSE)])

\* toggleChipSelection returning the list as it is when no chip matches
toggleChipSelection_unknownNoop(S, chipId, multiSelect) ==
    IF \A i \in DOMAIN S.value : S.value[i].id # chipId THEN Emit(S.value)
    ELSE Emit([i \in DOMAIN S.value |->
                 IF S.value[i].id = chipId
                 THEN Spread(S.value[i], "selected", ~IsSelected(S.value[i]))
                 ELSE IF multiSelect THEN S.value[i]
                 ELSE Spread(S.value[i], "selected", FALSE)])

toggleChipSelection(S, chipId, multiSelect) ==
    Emit([i \in DOMAIN S.value |->
            IF S.value[i].id = chipId
            THEN Spread(S.value[i], "selected", ~IsSelected(S.value[i]))
            ELSE IF multiSelect THEN S.value[i]
            ELSE Spread(S.value[i], "selected", FALSE)])

\* handleInputFocus leaving the selection alone
handleInputFocus_keepsSelection(S) == NoEffect

handleInputFocus(S) == clearSelection(S)

\* inputRef.current?.focus(): a focus event is dispatched only when the
\* element gains the focus; a disabled input cannot gain it
focusInput(S) ==
    Then([NoEffect EXCEPT !.focus = TRUE],
         IF S.focused \/ S.props.disabled THEN NoEffect
         ELSE handleInputFocus(S))

NotSelected(chip) == ~IsSelected(chip)

\* removeChips removing the selected chips only while the input is empty
removeChips_textBlocksSelection(S) ==
    IF Len(selectedChips(S)) > 0 /\ S.inputValue = <<>>
    THEN Then(Emit(SelectSeq(S.value, NotSelected)), focusInput(S))
    ELSE IF Len(S.value) > 0 /\ S.inputValue = <<>>
    THEN Then(Emit(SubSeq(S.value, 1, Len(S.value) - 1)), focusInput(S))
    ELSE NoEffect

\* removeChips removing the last chip whatever the input holds
removeChips_ignoresText(S) ==
    IF Len(selectedChips(S)) > 0
    THEN Then(Emit(SelectSeq(S.value, NotSelected)), focusInput(S))
    ELSE IF Len(S.value) > 0
    THEN Then(Emit(SubSeq(S.value, 1, Len(S.value) - 1)), focusInput(S))
    ELSE NoEffect

\* removeChips removing the chips from the value array itself (splice)
removeChips_writesInPlace(S) ==
    IF Len(selectedChips(S)) > 0
    THEN Then([Emit(SelectSeq(S.value, NotSelected))
                 EXCEPT !.written = <<SelectSeq(S.value, NotSelected)>>],
              focusInput(S))
    ELSE IF Len(S.value) > 0 /\ S.inputValue = <<>>
    THEN Then([Emit(SubSeq(S.value, 1, Len(S.value) - 1))
                 EXCEPT !.written = <<SubSeq(S.value, 1, Len(S.value) - 1)>>],
              focusInput(S))
    ELSE NoEffect

Spared(chip) == ~IsSelected(chip) \/ Truthy(chip, "disabled")

\* removeChips leaving every disabled chip in the list
removeChips_keepsDisabled(S) ==
    IF Len(selectedChips(S)) > 0
    THEN Then(Emit(SelectSeq(S.value, Spared)), focusInput(S))
    ELSE IF /\ Len(S.value) > 0
            /\ S.inputValue = <<>>
            /\ ~Truthy(S.value[Len(S.value)], "disabled")
    THEN Then(Emit(SubSeq(S.value, 1, Len(S.value) - 1)), focusInput(S))
    ELSE NoEffect

removeChips(S) ==
    IF Len(selectedChips(S)) > 0
    THEN Then(Emit(SelectSeq(S.value, NotSelected)), focusInput(S))
    ELSE IF Len(S.value) > 0 /\ S.inputValue = <<>>
    THEN Then(Emit(SubSeq(S.value, 1, Len(S.value) - 1)), focusInput(S))
    ELSE NoEffect

\* the chips of the snapshot with every selection cleared
Deselected(S) ==
    [i \in DOMAIN S.value |-> Spread(S.value[i], "selected", FALSE)]

\* App.handleAdd, the host's onAdd; a host may also reject the text, as
\* the onAdd = () => null of the component tests does
App_handleAdd(text, n) ==
    LET trimmed == trim(text) IN
    IF trimmed = <<>> THEN [ok |-> FALSE, chip |-> createChip(<<>>, <<>>)]
    ELSE [ok |-> TRUE, chip |-> createChip(trimmed, randomUUID(n + 1))]

onAdd(text, accept, n) ==
    IF accept THEN App_handleAdd(text, n)
    ELSE [ok |-> FALSE, chip |-> createChip(<<>>, <<>>)]

\* AddChip appending to the list without clearing its selection
AddChip_keepsSelection(S, text, r) ==
    Then([NoEffect EXCEPT !.onAdd = <<text>>,
                          !.uuids = IF r.ok THEN 1 ELSE 0],
         IF r.ok
         THEN Then(Emit(Append(S.value, r.chip)), SetInput(<<>>))
         ELSE NoEffect)

\* the calls made once onAdd(text) has returned r
AddChip(S, text, r) ==
    Then([NoEffect EXCEPT !.onAdd = <<text>>,
                          !.uuids = IF r.ok THEN 1 ELSE 0],
         IF r.ok
         THEN Then(Emit(Append(Deselected(S), r.chip)), SetInput(<<>>))
         ELSE NoEffect)

\* createChipFromInput testing the raw text for emptiness
createChipFromInput_rawEmptyTest(S, accept, n) ==
    LET trimmedValue == trim(S.inputValue) IN
    IF S.inputValue = <<>> \/ ~S.props.onAdd THEN NoEffect
    ELSE LET newChip == onAdd(trimmedValue, accept, n) IN
         Then(AddChip(S, trimmedValue, newChip),
              IF newChip.ok THEN focusInput(S) ELSE NoEffect)

createChipFromInput(S, accept, n) ==
    LET trimmedValue == trim(S.inputValue) IN
    IF trimmedValue = <<>> \/ ~S.props.onAdd THEN NoEffect
    ELSE LET newChip == onAdd(trimmedValue, accept, n) IN
         Then(AddChip(S, trimmedValue, newChip),
              IF newChip.ok THEN focusInput(S) ELSE NoEffect)

\* handleKeyDown with a Delete key that removes selected chips only
handleKeyDown_deleteNeedsSelection(S, key, isCmdOrCtrl) ==
    IF isCmdOrCtrl /\ key = "a"
    THEN Then(PreventDefault, selectAllChips(S))
    ELSE IF isCmdOrCtrl /\ key = "c" /\ Len(selectedChips(S)) > 0
    THEN Then(PreventDefault,
              IF S.props.onCopy
              THEN [NoEffect EXCEPT !.onCopy = <<selectedChips(S)>>]
              ELSE NoEffect)
    ELSE IF isCmdOrCtrl /\ key = "v" THEN NoEffect
    ELSE IF key = "Backspace" \/ (key = "Delete" /\ Len(selectedChips(S)) > 0)
    THEN Then(PreventDefault, removeChips(S))
    ELSE IF key = "Escape" THEN Then(PreventDefault, clearSelection(S))
    ELSE NoEffect

\* handleKeyDown copying the whole list once a chip is selected
handleKeyDown_copiesAll(S, key, isCmdOrCtrl) ==
    IF isCmdOrCtrl /\ key = "a"
    THEN Then(PreventDefault, selectAllChips(S))
    ELSE IF isCmdOrCtrl /\ key = "c" /\ Len(selectedChips(S)) > 0
    THEN Then(PreventDefault,
              IF S.props.onCopy
              THEN [NoEffect EXCEPT !.onCopy = <<S.value>>]
              ELSE NoEffect)
    ELSE IF isCmdOrCtrl /\ key = "v" THEN NoEffect
    ELSE IF key = "Backspace" \/ key = "Delete"
    THEN Then(PreventDefault, removeChips(S))
    ELSE IF key = "Escape" THEN Then(PreventDefault, clearSelection(S))
    ELSE NoEffect

handleKeyDown(S, key, isCmdOrCtrl) ==
    IF isCmdOrCtrl /\ key = "a"
    THEN Then(PreventDefault, selectAllChips(S))
    ELSE IF isCmdOrCtrl /\ key = "c" /\ Len(selectedChips(S)) > 0
    THEN Then(PreventDefault,
              IF S.props.onCopy
              THEN [NoEffect EXCEPT !.onCopy = <<selectedChips(S)>>]
              ELSE NoEffect)
    ELSE IF isCmdOrCtrl /\ key = "v" THEN NoEffect
    ELSE IF key = "Backspace" \/ key = "Delete"
    THEN Then(PreventDefault, removeChips(S))
    ELSE IF key = "Escape" THEN Then(PreventDefault, clearSelection(S))
    ELSE NoEffect

handleChipClick(S, chipId, multiSelect) ==
    toggleChipSelection(S, chipId, multiSelect)

\* App.handlePaste, the host's onPaste
App_handlePaste(data, n) == deserialize(data, n)

\* appendPasted clearing the selection whatever onPaste returned
appendPasted_alwaysClears(S, clipboardData, newChips) ==
    Then([PreventDefault EXCEPT !.onPaste = <<clipboardData>>,
                                !.uuids = newChips.uuids],
         Then(Emit(Deselected(S) \o newChips.chips), SetInput(<<>>)))

\* appendPasted clearing the input field whatever onPaste returned
appendPasted_alwaysClearsInput(S, clipboardData, newChips) ==
    Then([PreventDefault EXCEPT !.onPaste = <<clipboardData>>,
                                !.uuids = newChips.uuids],
         IF newChips.ok /\ Len(newChips.chips) > 0
         THEN Then(Emit(Deselected(S) \o newChips.chips), SetInput(<<>>))
         ELSE SetInput(<<>>))

\* appendPasted appending to the list as it is, selection included
appendPasted_keepsSelection(S, clipboardData, newChips) ==
    Then([PreventDefault EXCEPT !.onPaste = <<clipboardData>>,
                                !.uuids = newChips.uuids],
         IF newChips.ok /\ Len(newChips.chips) > 0
         THEN Then(Emit(S.value \o newChips.chips), SetInput(<<>>))
         ELSE NoEffect)

\* the calls of handlePaste once onPaste(clipboardData) has returned newChips
appendPasted(S, clipboardData, newChips) ==
    Then([PreventDefault EXCEPT !.onPaste = <<clipboardData>>,
                                !.uuids = newChips.uuids],
         IF newChips.ok /\ Len(newChips.chips) > 0
         THEN Then(Emit(Deselected(S) \o newChips.chips), SetInput(<<>>))
         ELSE NoEffect)

handlePaste(S, clipboardData, n) ==
    IF ~S.props.onPaste THEN NoEffect
    ELSE appendPasted(S, clipboardData, App_handlePaste(clipboardData, n))

handleInputChange_keepsLoneSeparator(S, newValue, accept, n) ==
    LET lastChar == IF newValue = <<>> THEN "" ELSE newValue[Len(newValue)]
        textWithoutSeparator == trim(SubSeq(newValue, 1, Len(newValue) - 1))
    IN  IF /\ Cardinality(S.props.separators) > 0
           /\ S.props.onAdd
           /\ lastChar # ""
           /\ lastChar \in S.props.separators
           /\ textWithoutSeparator # <<>>
        THEN LET newChip == onAdd(textWithoutSeparator, accept, n) IN
             IF newChip.ok THEN AddChip(S, textWithoutSeparator, newChip)
             ELSE Then(AddChip(S, textWithoutSeparator, newChip),
                       SetInput(<<>>))
        ELSE SetInput(newValue)

handleInputChange(S, newValue, accept, n) ==
    LET lastChar == IF newValue = <<>> THEN "" ELSE newValue[Len(newValue)]
        textWithoutSeparator == trim(SubSeq(newValue, 1, Len(newValue) - 1))
    IN  IF /\ Cardinality(S.props.separators) > 0
           /\ S.props.onAdd
           /\ lastChar # ""
           /\ lastChar \in S.props.separators
        THEN IF textWithoutSeparator # <<>>
             THEN LET newChip == onAdd(textWithoutSeparator, accept, n) IN
                  IF newChip.ok THEN AddChip(S, textWithoutSeparator, newChip)
                  ELSE Then(AddChip(S, textWithoutSeparator, newChip),
                            SetInput(<<>>))
             ELSE SetInput(<<>>)
        ELSE SetInput(newValue)

\* handleInputKeyDown leaving the text in place on Escape
handleInputKeyDown_escapeKeepsText(S, key, accept, n) ==
    IF key = "Enter"
    THEN Then(PreventDefault, createChipFromInput(S, accept, n))
    ELSE IF key = "Backspace" /\ S.inputValue = <<>>
    THEN IF Len(S.value) > 0 \/ Len(selectedChips(S)) > 0
         THEN Then(PreventDefault, removeChips(S))
         ELSE NoEffect
    ELSE IF key = "Escape"
    THEN Then(PreventDefault, clearSelection(S))
    ELSE NoEffect

handleInputKeyDown(S, key, accept, n) ==
    IF key = "Enter"
    THEN Then(PreventDefault, createChipFromInput(S, accept, n))
    ELSE IF key = "Backspace" /\ S.inputValue = <<>>
    THEN IF Len(S.value) > 0 \/ Len(selectedChips(S)) > 0
         THEN Then(PreventDefault, removeChips(S))
         ELSE NoEffect
    ELSE IF key = "Escape"
    THEN Then(PreventDefault, Then(SetInput(<<>>), clearSelection(S)))
    ELSE NoEffect

\* App.handleCopy writing the labels only, as toPlainText gives them
App_handleCopy_plainText(selected) == toPlainText(selected)

\* App.handleCopy, the host's onCopy: the text written to the clipboard
App_handleCopy(selected) == serialize(selected)

-----------------------------------------------------------------------------
(* The component mounted in its host: one action per DOM event *)

\* the props App renders the component with
AppProps ==
    [onAdd |-> TRUE, onPaste |-> TRUE, onCopy |-> TRUE,
     disabled |-> FALSE, separators |-> {}]

\* the props of the component tests that exercise typing, selection and
\* deletion: no clipboard callbacks; separators, onAdd and disabled vary
TypingProps ==
    [AppProps EXCEPT !.onPaste = FALSE, !.onCopy = FALSE]

Configs ==
    {TypingProps,
     [TypingProps EXCEPT !.separators = {","}],
     [TypingProps EXCEPT !.onAdd = FALSE],
     [TypingProps EXCEPT !.disabled = TRUE]}

\* the chips a host starts with: position k holds a chip of identifier k
HostLabels ==
    <<<<"R", "e">>, <<"T", "\"", "s">>, <<"V", ",", "i">>, <<"N", "\\">>>>

HostChip(k, sel, dis) ==
    LET base == [id |-> <<ToString(k)>>, label |-> HostLabels[k]]
        withValue ==
            IF k % 2 = 0 THEN ("value" :> <<"v", ToString(k)>>) @@ base
            ELSE base
        withSel ==
            IF sel = "absent" THEN withValue
            ELSE ("selected" :> (sel = "true")) @@ withValue
    IN  IF dis THEN ("disabled" :> TRUE) @@ withSel ELSE withSel

InitialLists ==
    UNION {{[k \in 1..n |-> HostChip(k, sel[k], k = 2)] :
              sel \in [1..n -> {"true", "absent"}]} : n \in 0..MaxInit}

\* the texts the user leaves in the input field by one edit
SampleTexts ==
    {<<>>, <<"a">>, <<" ">>, <<",">>,
     <<" ", "a">>, <<"a", ",">>, <<",", ",">>,
     <<" ", "a", " ">>, <<" ", "a", ",">>,
     <<" ", "a", " ", ",">>}

InputTexts == {t \in SampleTexts : Len(t) <= MaxInputLen}

\* texts another application may have put on the clipboard
ForeignTexts ==
    {<<>>,
     <<",", " ", ",">>,
     <<"a", ",", " ", "b", " ">>,
     CLIPBOARD_MARKER \o <<"o", "o", "p", "s">>,
     CLIPBOARD_MARKER \o <<"{", Quote, "v", "e", "r", "s", "i", "o", "n", Quote,
                           ":", "2", ",", Quote, "c", "h", "i", "p", "s", Quote,
                           ":", "[", "]", "}">>,
     CLIPBOARD_MARKER \o <<"{", Quote, "v", "e", "r", "s", "i", "o", "n", Quote,
                           ":", "1", ",", Quote, "c", "h", "i", "p", "s", Quote,
                           ":", "[", "]", "}">>}

\* the key presses explored: <<event.key, event.metaKey || event.ctrlKey>>
KeyEvents ==
    {<<"a", TRUE>>, <<"a", FALSE>>, <<"c", TRUE>>, <<"v", TRUE>>,
     <<"Backspace", FALSE>>, <<"Delete", FALSE>>, <<"Delete", TRUE>>,
     <<"Escape", FALSE>>, <<"Enter", FALSE>>}

Snapshot ==
    [value |-> value, inputValue |-> inputValue,
     focused |-> focused, props |-> props]

Event(op) ==
    [op |-> op, key |-> "", mod |-> FALSE, chipId |-> <<>>, multi |-> FALSE,
     text |-> <<>>]

NoEvent == [ev |-> Event("mount"), pre |-> <<>>, eff |-> NoEffect]

\* the page holds one ChipInput only
NoInstance == [id |-> 0, value |-> <<>>, inputValue |-> <<>>]

LastOf(seq, default) == IF seq = <<>> THEN default ELSE seq[Len(seq)]

\* the host adopts every list passed to onChange (App.handleChange1), the
\* component stores the input text, App.handleCopy writes the clipboard
Dispatch(ev, eff) ==
    /\ Len(LastOf(eff.onChange, value)) <= MaxChips
    /\ uuidCount + eff.uuids <= MaxUuid
    /\ value' = LastOf(eff.onChange, value)
    /\ inputValue' = LastOf(eff.setInputValue, inputValue)
    /\ focused' = (focused \/ (eff.focus /\ ~props.disabled))
    /\ clipboard' = IF eff.onCopy = <<>> THEN clipboard
                    ELSE App_handleCopy(eff.onCopy[Len(eff.onCopy)])
    /\ uuidCount' = uuidCount + eff.uuids
    /\ last' = [ev |-> ev, pre |-> Snapshot, eff |-> eff]
    /\ UNCHANGED <<props, before, decoded, idle>>

Init ==
    /\ value \in InitialLists
    /\ inputValue = <<>>
    /\ focused = FALSE
    /\ props \in Configs
    /\ clipboard = <<>>
    /\ uuidCount = 0
    /\ last = NoEvent
    /\ before = NoEvent
    /\ decoded = DecodeNull("none")
    /\ idle = NoInstance

\* a click on the chip at position i; the click does not reach the container
ChipClick ==
    \E i \in DOMAIN value, multi \in BOOLEAN :
        Dispatch([Event("chipClick") EXCEPT !.chipId = value[i].id,
                                            !.multi = multi],
                 handleChipClick(Snapshot, value[i].id, multi))

\* a click on the container, or the focus moving into the input field
ContainerClick ==
    /\ ~focused
    /\ Dispatch(Event("containerClick"), focusInput(Snapshot))

\* the focus leaves the input field
Blur ==
    /\ focused
    /\ focused' = FALSE
    /\ last' = [ev |-> Event("blur"), pre |-> Snapshot, eff |-> NoEffect]
    /\ UNCHANGED <<value, inputValue, props, clipboard, uuidCount, before,
                   decoded, idle>>

\* a key pressed in the focused input field: its own handler runs, then the
\* container's as the event bubbles, both closing over the same render
\* KeyDownOf with the container's handler closing over the list the
\* input's handler has just emitted
KeyDownOf_freshSnapshot(keys) ==
    /\ focused
    /\ \E k \in keys, accept \in BOOLEAN :
        LET first == handleInputKeyDown(Snapshot, k[1], accept, uuidCount)
        IN  Dispatch([Event("keyDown") EXCEPT !.key = k[1], !.mod = k[2]],
                     Then(first,
                          handleKeyDown([Snapshot EXCEPT !.value =
                                            LastOf(first.onChange, value)],
                                        k[1], k[2])))

KeyDownOf(keys) ==
    /\ focused
    /\ \E k \in keys, accept \in BOOLEAN :
        LET first == handleInputKeyDown(Snapshot, k[1], accept, uuidCount)
        IN  Dispatch([Event("keyDown") EXCEPT !.key = k[1], !.mod = k[2]],
                     Then(first, handleKeyDown(Snapshot, k[1], k[2])))

KeyDown == KeyDownOf(KeyEvents)

\* the user edits the text of the focused input field
InputChange ==
    /\ focused
    /\ \E newValue \in InputTexts, accept \in BOOLEAN :
        Dispatch([Event("inputChange") EXCEPT !.text = newValue],
                 handleInputChange(Snapshot, newValue, accept, uuidCount))

\* a paste in the focused input field, bubbling to the container
Paste ==
    /\ focused
    /\ Dispatch([Event("paste") EXCEPT !.text = clipboard],
                handlePaste(Snapshot, clipboard, uuidCount))

\* another application writes the clipboard
ForeignCopy ==
    /\ \E text \in ForeignTexts :
        /\ clipboard' = text
        /\ last' = [ev |-> [Event("foreignCopy") EXCEPT !.text = text],
                    pre |-> Snapshot, eff |-> NoEffect]
    /\ UNCHANGED <<value, inputValue, focused, props, uuidCount, before,
                   decoded, idle>>

Next ==
    \/ ChipClick
    \/ ContainerClick
    \/ Blur
    \/ KeyDown
    \/ InputChange

Spec == Init /\ [][Next]_vars

\* the component as App mounts it, with the clipboard callbacks
InitClipboard ==
    /\ value \in InitialLists
    /\ inputValue = <<>>
    /\ focused = FALSE
    /\ props = AppProps
    /\ clipboard = <<>>
    /\ uuidCount = 0
    /\ last = NoEvent
    /\ before = NoEvent
    /\ decoded = DecodeNull("none")
    /\ idle = NoInstance

\* the key presses of a copy and of a paste
ClipboardKeys == {<<"c", TRUE>>, <<"v", TRUE>>}

ClipboardKeyDown == KeyDownOf(ClipboardKeys)

\* the user selects chips, types, copies and pastes
NextClipboard ==
    \/ ChipClick
    \/ ContainerClick
    \/ InputChange
    \/ ClipboardKeyDown
    \/ Paste
    \/ ForeignCopy

SpecClipboard == InitClipboard /\ [][NextClipboard]_vars

-----------------------------------------------------------------------------
(* The selection callbacks invoked directly on a list the host holds, the  *)
(* host adopting each emitted list; two events of history are kept         *)

\* identifiers a caller may pass: those of the host chips and a foreign one
CandidateIds == {<<ToString(k)>> : k \in 1..MaxInit} \cup {<<"9">>}

InitCallbacks ==
    /\ value \in InitialLists
    /\ inputValue = <<>>
    /\ focused = FALSE
    /\ props = AppProps
    /\ clipboard = <<>>
    /\ uuidCount = 0
    /\ last = NoEvent
    /\ before = NoEvent
    /\ decoded = DecodeNull("none")
    /\ idle = NoInstance

Call(ev, eff) ==
    /\ value' = LastOf(eff.onChange, value)
    /\ last' = [ev |-> ev, pre |-> Snapshot, eff |-> eff]
    /\ before' = last
    /\ UNCHANGED <<inputValue, focused, props, clipboard, uuidCount, decoded, idle>>

CallSelectAll == Call(Event("selectAllChips"), selectAllChips(Snapshot))

CallClearSelection == Call(Event("clearSelection"), clearSelection(Snapshot))

CallToggle ==
    \E chipId \in CandidateIds, multi \in BOOLEAN :
        Call([Event("toggleChipSelection") EXCEPT !.chipId = chipId,
                                                  !.multi = multi],
             toggleChipSelection(Snapshot, chipId, multi))

NextCallbacks ==
    \/ CallSelectAll
    \/ CallClearSelection
    \/ CallToggle

SpecCallbacks == InitCallbacks /\ [][NextCallbacks]_vars

-----------------------------------------------------------------------------
(* The six list operations of the component invoked directly, in any order *)

InitController ==
    /\ value \in InitialLists
    /\ inputValue \in InputTexts
    /\ focused \in BOOLEAN
    /\ props = AppProps
    /\ clipboard = <<>>
    /\ uuidCount = 0
    /\ last = NoEvent
    /\ before = NoEvent
    /\ decoded = DecodeNull("none")
    /\ idle = NoInstance

DoSelectAll == Dispatch(Event("selectAllChips"), selectAllChips(Snapshot))

DoClearSelection == Dispatch(Event("clearSelection"), clearSelection(Snapshot))

DoToggle ==
    \E i \in DOMAIN value, multi \in BOOLEAN :
        Dispatch([Event("toggleChipSelection") EXCEPT !.chipId = value[i].id,
                                                      !.multi = multi],
                 toggleChipSelection(Snapshot, value[i].id, multi))

DoRemove == Dispatch(Event("removeChips"), removeChips(Snapshot))

DoCreate ==
    \E accept \in BOOLEAN :
        Dispatch(Event("createChipFromInput"),
                 createChipFromInput(Snapshot, accept, uuidCount))

\* a paste of a foreign text or of the copy of the selected chips
DoPaste ==
    \E text \in ForeignTexts \cup {App_handleCopy(selectedChips(Snapshot))} :
        Dispatch([Event("handlePaste") EXCEPT !.text = text],
                 handlePaste(Snapshot, text, uuidCount))

NextController ==
    \/ DoSelectAll
    \/ DoClearSelection
    \/ DoToggle
    \/ DoRemove
    \/ DoCreate
    \/ DoPaste

SpecController == InitController /\ [][NextController]_vars

-----------------------------------------------------------------------------
(* The two ChipInputs of App: the user selects and copies in the first,    *)
(* then turns to the second and pastes.  The variables of the component    *)
(* hold the instance the user works in, idle the other one.                *)

\* the lists App's second ChipInput starts with: its chip is no chip of the
\* first
SecondLists ==
    {<<>>} \cup {<<HostChip(4, sel, FALSE)>> : sel \in {"true", "absent"}}

InitInstances ==
    /\ value \in InitialLists
    /\ inputValue = <<>>
    /\ focused = FALSE
    /\ props = AppProps
    /\ clipboard = <<>>
    /\ uuidCount = 0
    /\ last = NoEvent
    /\ before = NoEvent
    /\ decoded = DecodeNull("none")
    /\ idle \in [id : {2}, value : SecondLists, inputValue : {<<>>}]

\* having copied, the user leaves the first ChipInput for the second: each
\* keeps its own list and text, the clipboard and randomUUID are the page's
SwitchInstance ==
    /\ idle.id = 2
    /\ last.ev.op = "keyDown"
    /\ last.eff.onCopy # <<>>
    /\ value' = idle.value
    /\ inputValue' = idle.inputValue
    /\ focused' = FALSE
    /\ idle' = [id |-> 1, value |-> value, inputValue |-> inputValue]
    /\ last' = [ev |-> Event("switchInstance"), pre |-> Snapshot,
                eff |-> NoEffect]
    /\ UNCHANGED <<props, clipboard, uuidCount, before, decoded>>

NextInstances ==
    \/ ChipClick
    \/ ContainerClick
    \/ ClipboardKeyDown
    \/ Paste
    \/ SwitchInstance

SpecInstances == InitInstances /\ [][NextInstances]_vars

-----------------------------------------------------------------------------
(* The serializer applied to a list: serialize, then deserialize the text  *)

CodecAlphabet == {"a", Quote, Backslash}

CodecStrings(maxLen) == UNION {[1..n -> CodecAlphabet] : n \in 0..maxLen}

ValueKinds == <<"absent", "empty", "custom">>

\* the chip at position k of a list handed to the serializer; its
\* identifier is the host's own or one randomUUID issued earlier
CodecChip(k, label, val, uuid) ==
    LET base == [id |-> IF uuid THEN randomUUID(k) ELSE <<ToString(k)>>,
                 label |-> label]
        withValue ==
            CASE val = "absent" -> base
              [] val = "empty" -> ("value" :> <<>>) @@ base
              [] val = "custom" -> ("value" :> (label \o <<",", "v">>)) @@ base
    IN  IF k % 2 = 1
        THEN ("selected" :> TRUE) @@ withValue
        ELSE ("disabled" :> TRUE) @@ withValue

\* lists of up to maxChips chips: any labels, the three kinds of value in
\* rotation from any starting kind
CodecLists(maxChips) ==
    UNION {{[k \in 1..n |->
                CodecChip(k, lab[k], ValueKinds[((k + shift) % 3) + 1], uuid)] :
              lab \in [1..n -> CodecStrings(MaxCodecLen)],
              shift \in 0..2,
              uuid \in BOOLEAN} : n \in 0..maxChips}

\* texts after the marker that a foreign or damaged payload may hold
MarkedBodies ==
    {\* not JSON
     <<"o", "o", "p", "s", ",", " ", "x">>,
     <<>>,
     <<"{">>,
     <<"{", Quote, "v", "e", "r", "s", "i", "o", "n", Quote, ":", "1",
            ",", Quote, "c", "h", "i", "p", "s", Quote, ":", "[", "}">>,
     <<"{", Quote, "v", "e", "r", "s", "i", "o", "n", Quote, ":", "1",
            ",", Quote, "c", "h", "i", "p", "s", Quote, ":", "[", "]",
            ",", "}">>,
     <<"{", "'", "v", "e", "r", "s", "i", "o", "n", "'", ":", "1", "}">>,

     \* JSON, but not an object
     <<"n", "u", "l", "l">>,
     <<"t", "r", "u", "e">>,
     <<"0">>,
     <<"7">>,
     <<Quote, "a", ",", "b", Quote>>,
     <<"[", "]">>,
     <<"[", "1", ",", "2", "]">>,

     \* no numeric version
     <<"{", "}">>,
     <<"{", Quote, "c", "h", "i", "p", "s", Quote, ":", "[", "]", "}">>,
     <<"{", Quote, "v", "e", "r", "s", "i", "o", "n", Quote, ":",
            Quote, "1", Quote, ",", Quote, "c", "h", "i", "p", "s",
            Quote, ":", "[", "]", "}">>,
     <<"{", Quote, "v", "e", "r", "s", "i", "o", "n", Quote, ":", "n",
            "u", "l", "l", ",", Quote, "c", "h", "i", "p", "s", Quote,
            ":", "[", "]", "}">>,
     <<"{", Quote, "v", "e", "r", "s", "i", "o", "n", Quote, ":", "t",
            "r", "u", "e", ",", Quote, "c", "h", "i", "p", "s", Quote,
            ":", "[", "{", Quote, "l", "a", "b", "e", "l", Quote, ":",
            Quote, "a", Quote, "}", "]", "}">>,

     \* chips is not an array
     <<"{", Quote, "v", "e", "r", "s", "i", "o", "n", Quote, ":", "1",
            "}">>,
     <<"{", Quote, "v", "e", "r", "s", "i", "o", "n", Quote, ":", "1",
            ",", Quote, "c", "h", "i", "p", "s", Quote, ":", Quote,
            "a", ",", "b", Quote, "}">>,
     <<"{", Quote, "v", "e", "r", "s", "i", "o", "n", Quote, ":", "1",
            ",", Quote, "c", "h", "i", "p", "s", Quote, ":", "{", "}",
            "}">>,
     <<"{", Quote, "v", "e", "r", "s", "i", "o", "n", Quote, ":", "1",
            ",", Quote, "c", "h", "i", "p", "s", Quote, ":", "n", "u",
            "l", "l", "}">>,
     <<"{", Quote, "v", "e", "r", "s", "i", "o", "n", Quote, ":", "1",
            ",", Quote, "c", "h", "i", "p", "s", Quote, ":", "1", "}">>,

     \* another version
     <<"{", Quote, "v", "e", "r", "s", "i", "o", "n", Quote, ":", "2",
            ",", Quote, "c", "h", "i", "p", "s", Quote, ":", "[", "]",
            "}">>,
     <<"{", Quote, "v", "e", "r", "s", "i", "o", "n", Quote, ":", "9",
            "9", "9", ",", Quote, "c", "h", "i", "p", "s", Quote, ":",
            "[", "{", Quote, "l", "a", "b", "e", "l", Quote, ":",
            Quote, "a", Quote, "}", "]", "}">>,
     <<"{", Quote, "v", "e", "r", "s", "i", "o", "n", Quote, ":", "0",
            ",", Quote, "c", "h", "i", "p", "s", Quote, ":", "[", "]",
            "}">>,
     <<"{", Quote, "v", "e", "r", "s", "i", "o", "n", Quote, ":", "-",
            "1", ",", Quote, "c", "h", "i", "p", "s", Quote, ":", "[",
            "]", "}">>,
     <<"{", Quote, "v", "e", "r", "s", "i", "o", "n", Quote, ":", "1",
            ".", "5", ",", Quote, "c", "h", "i", "p", "s", Quote, ":",
            "[", "]", "}">>,

     \* another version whose chips is not an array
     <<"{", Quote, "v", "e", "r", "s", "i", "o", "n", Quote, ":", "2",
            "}">>,
     <<"{", Quote, "v", "e", "r", "s", "i", "o", "n", Quote, ":", "2",
            ",", Quote, "c", "h", "i", "p", "s", Quote, ":", "{",
            Quote, "a", Quote, ":", "1", "}", "}">>,

     \* version 1 in other spellings, members repeated or reordered
     <<"{", Quote, "v", "e", "r", "s", "i", "o", "n", Quote, ":", "1",
            ".", "0", ",", Quote, "c", "h", "i", "p", "s", Quote, ":",
            "[", "]", "}">>,
     <<"{", Quote, "v", "e", "r", "s", "i", "o", "n", Quote, ":", "1",
            "e", "0", ",", Quote, "c", "h", "i", "p", "s", Quote, ":",
            "[", "]", "}">>,
     <<" ", "{", " ", Quote, "c", "h", "i", "p", "s", Quote, " ", ":",
            " ", "[", " ", "]", " ", ",", " ", Quote, "v", "e", "r",
            "s", "i", "o", "n", Quote, " ", ":", " ", "1", " ", "}",
            " ">>,
     <<"{", Quote, "v", "e", "r", "s", "i", "o", "n", Quote, ":", "2",
            ",", Quote, "v", "e", "r", "s", "i", "o", "n", Quote, ":",
            "1", ",", Quote, "c", "h", "i", "p", "s", Quote, ":", "[",
            "]", "}">>,
     <<"{", Quote, "v", "e", "r", "s", "i", "o", "n", Quote, ":", "1",
            ",", Quote, "c", "h", "i", "p", "s", Quote, ":", "[", "]",
            ",", Quote, "e", "x", "t", "r", "a", Quote, ":", "[", "{",
            "}", "]", "}">>,

     \* elements that are not what serialize writes
     <<"{", Quote, "v", "e", "r", "s", "i", "o", "n", Quote, ":", "1",
            ",", Quote, "c", "h", "i", "p", "s", Quote, ":", "[", "{",
            Quote, "l", "a", "b", "e", "l", Quote, ":", Quote, "a",
            Quote, "}", "]", "}">>,
     <<"{", Quote, "v", "e", "r", "s", "i", "o", "n", Quote, ":", "1",
            ",", Quote, "c", "h", "i", "p", "s", Quote, ":", "[", "{",
            Quote, "i", "d", Quote, ":", Quote, "u", "u", "i", "d",
            "-", "1", Quote, ",", Quote, "l", "a", "b", "e", "l",
            Quote, ":", Quote, "a", Quote, ",", Quote, "v", "a", "l",
            "u", "e", Quote, ":", "n", "u", "l", "l", "}", "]", "}">>,
     <<"{", Quote, "v", "e", "r", "s", "i", "o", "n", Quote, ":", "1",
            ",", Quote, "c", "h", "i", "p", "s", Quote, ":", "[", "{",
            Quote, "i", "d", Quote, ":", Quote, "1", Quote, ",",
            Quote, "v", "a", "l", "u", "e", Quote, ":", Quote, "v",
            Quote, "}", ",", "{", Quote, "i", "d", Quote, ":", Quote,
            "1", Quote, ",", Quote, "l", "a", "b", "e", "l", Quote,
            ":", Quote, "b", Quote, ",", Quote, "v", "a", "l", "u",
            "e", Quote, ":", Quote, Quote, "}", "]", "}">>,
     <<"{", Quote, "v", "e", "r", "s", "i", "o", "n", Quote, ":", "1",
            ",", Quote, "c", "h", "i", "p", "s", Quote, ":", "[", "n",
            "u", "l", "l", "]", "}">>,
     <<"{", Quote, "v", "e", "r", "s", "i", "o", "n", Quote, ":", "1",
            ",", Quote, "c", "h", "i", "p", "s", Quote, ":", "[", "{",
            Quote, "l", "a", "b", "e", "l", Quote, ":", Quote, "a",
            Quote, "}", ",", "n", "u", "l", "l", "]", "}">>,
     <<"{", Quote, "v", "e", "r", "s", "i", "o", "n", Quote, ":", "1",
            ",", Quote, "c", "h", "i", "p", "s", Quote, ":", "[", "7",
            ",", Quote, "a", Quote, "]", "}">>,
     <<"{", Quote, "v", "e", "r", "s", "i", "o", "n", Quote, ":", "1",
            ",", Quote, "c", "h", "i", "p", "s", Quote, ":", "[", "{",
            Quote, "l", "a", "b", "e", "l", Quote, ":", Quote,
            Backslash, "u", "0", "0", "6", "1", Backslash, Quote,
            Quote, ",", Quote, "s", "e", "l", "e", "c", "t", "e", "d",
            Quote, ":", "t", "r", "u", "e", "}", "]", "}">>}

\* labels as a user types them: letters, commas and blanks, one of two
\* words and one that begins like a serialized text
DisplayLabels(maxLen) ==
    UNION {[1..n -> {"a", ",", " "}] : n \in 0..maxLen}
        \cup {<<"a", " ", "a">>, CLIPBOARD_MARKER \o <<"a">>}

\* lists of up to maxChips chips as createChip builds them from such labels
DisplayLists(maxChips) ==
    UNION {{[k \in 1..n |-> createChip(lab[k], <<ToString(k)>>)] :
              lab \in [1..n -> DisplayLabels(MaxCodecLen)]} :
           n \in 0..maxChips}

InitCodec ==
    /\ value \in CodecLists(MaxCodecChips) \cup DisplayLists(MaxCodecChips)
    /\ inputValue = <<>>
    /\ focused = FALSE
    /\ props = AppProps
    /\ clipboard = <<>>
    /\ uuidCount = MaxCodecChips
    /\ last = NoEvent
    /\ before = NoEvent
    /\ decoded = DecodeNull("none")
    /\ idle = NoInstance

Serialize ==
    /\ last.ev.op = "mount"
    /\ clipboard' = serialize(value)
    /\ last' = [NoEvent EXCEPT !.ev = Event("serialize")]
    /\ UNCHANGED <<value, inputValue, focused, props, uuidCount, before,
                   decoded, idle>>

Deserialize ==
    /\ last.ev.op = "serialize"
    /\ decoded' = deserialize(clipboard, uuidCount)
    /\ uuidCount' = uuidCount + decoded'.uuids
    /\ last' = [NoEvent EXCEPT !.ev = Event("deserialize")]
    /\ UNCHANGED <<value, inputValue, focused, props, clipboard, before, idle>>

\* a marked text written elsewhere is deserialized
DeserializeForeign ==
    /\ last.ev.op = "mount"
    /\ value = <<>>
    /\ \E body \in MarkedBodies :
        /\ clipboard' = CLIPBOARD_MARKER \o body
        /\ decoded' = deserialize(CLIPBOARD_MARKER \o body, uuidCount)
        /\ uuidCount' = uuidCount + decoded'.uuids
    /\ last' = [NoEvent EXCEPT !.ev = Event("deserializeForeign")]
    /\ UNCHANGED <<value, inputValue, focused, props, before, idle>>

\* texts without the marker: letters, commas and blanks in any arrangement
PlainAlphabet == {"a", "b", ",", " "}

PlainTexts(maxLen) == UNION {[1..n -> PlainAlphabet] : n \in 0..maxLen}

\* texts that hold the marker, or nearly the marker, but do not start with it
NearMarkerTexts ==
    {<<" ">> \o serialize(<<>>),
     <<"a", ",">> \o CLIPBOARD_MARKER \o <<"b">>,
     SubSeq(CLIPBOARD_MARKER, 1, Len(CLIPBOARD_MARKER) - 1),
     <<"_", "_", "c", "h", "i", "p", "i", "n", "p", "u", "t", "_", "_", ":",
       "a", ",", "b">>}

\* a text written by another program is deserialized
DeserializePlain ==
    /\ last.ev.op = "mount"
    /\ value = <<>>
    /\ \E text \in PlainTexts(MaxPlainLen) \cup NearMarkerTexts :
        /\ clipboard' = text
        /\ decoded' = deserialize(text, uuidCount)
        /\ uuidCount' = uuidCount + decoded'.uuids
    /\ last' = [NoEvent EXCEPT !.ev = Event("deserializePlain")]
    /\ UNCHANGED <<value, inputValue, focused, props, before, idle>>

\* the list is written as its human-readable text
ToPlainText ==
    /\ last.ev.op = "mount"
    /\ clipboard' = toPlainText(value)
    /\ last' = [NoEvent EXCEPT !.ev = Event("toPlainText")]
    /\ UNCHANGED <<value, inputValue, focused, props, uuidCount, before,
                   decoded, idle>>

\* the human-readable text of the list is deserialized
DeserializePlainText ==
    /\ last.ev.op = "toPlainText"
    /\ decoded' = deserialize(clipboard, uuidCount)
    /\ uuidCount' = uuidCount + decoded'.uuids
    /\ last' = [NoEvent EXCEPT !.ev = Event("deserializePlainText")]
    /\ UNCHANGED <<value, inputValue, focused, props, clipboard, before, idle>>

NextCodec ==
    \/ Serialize
    \/ Deserialize
    \/ DeserializeForeign
    \/ DeserializePlain
    \/ ToPlainText
    \/ DeserializePlainText

SpecCodec == InitCodec /\ [][NextCodec]_vars

-----------------------------------------------------------------------------
(* Properties *)

\* the value of a chip: its value field, the label when it carries none
\* (Chip.value "defaults to label if not provided")
ValueOf(chip) == IF Has(chip, "value") THEN chip.value ELSE chip.label

\* C1: round trip.  Once a list T has been serialized and the text
\* deserialized, the result is a success holding as many chips as T, chip k
\* carrying the label and the value of T[k], an identifier different from
\* T[k]'s, and selected = false.
C1_RoundTrip ==
    last.ev.op = "deserialize" =>
        /\ decoded.ok
        /\ Len(decoded.chips) = Len(value)
        /\ \A k \in DOMAIN value :
            /\ decoded.chips[k].label = value[k].label
            /\ decoded.chips[k].value = ValueOf(value[k])
            /\ decoded.chips[k].id # value[k].id
            /\ decoded.chips[k].selected = FALSE

\* a list of two chips, selected and carrying escaped characters, one
\* without a value and with an identifier issued by randomUUID, round-tripped
C1_Witness ==
    /\ last.ev.op = "deserialize"
    /\ decoded.ok
    /\ Len(value) = 2
    /\ value[1].id = randomUUID(1)
    /\ IsSelected(value[1])
    /\ value[1].label = <<Quote, Backslash>>
    /\ \E k \in DOMAIN value : ~Has(value[k], "value")
    /\ \E k \in DOMAIN value : Has(value[k], "value") /\ value[k].value # value[k].label

\* a Delete or Backspace key press, the event that calls removeChips
RemovalKey == last.ev.op = "keyDown" /\ last.ev.key \in {"Backspace", "Delete"}

\* the positions of the chips of a list that are not selected
Unselected(chips) == {i \in DOMAIN chips : ~IsSelected(chips[i])}

\* the k-th smallest member of a set of positions
Nth(positions, k) ==
    CHOOSE i \in positions : Cardinality({j \in positions : j < i}) = k - 1

\* C2: after a removal key pressed while at least one chip was selected,
\* the list is the previous list without its selected chips: every
\* unselected chip is kept, unchanged and in its previous order, whether or
\* not the input field held text.
C2_RemoveSelected ==
    (RemovalKey /\ Unselected(last.pre.value) # DOMAIN last.pre.value) =>
        /\ Len(value) = Cardinality(Unselected(last.pre.value))
        /\ \A k \in DOMAIN value :
            value[k] = last.pre.value[Nth(Unselected(last.pre.value), k)]

\* a removal with text in the input field from a list whose first chip was
\* selected and whose last two were not: exactly those two remain
C2_Witness ==
    /\ RemovalKey
    /\ last.pre.inputValue # <<>>
    /\ Len(last.pre.value) = 3
    /\ IsSelected(last.pre.value[1])
    /\ ~IsSelected(last.pre.value[2])
    /\ ~IsSelected(last.pre.value[3])
    /\ Len(value) = 2

\* C3: after a removal key pressed while no chip was selected, the list has
\* lost exactly its last chip if it was non-empty and the input field was
\* empty; otherwise nothing was emitted and the list is the previous list.
C3_RemoveLastOrNothing ==
    (RemovalKey /\ Unselected(last.pre.value) = DOMAIN last.pre.value) =>
        IF last.pre.value # <<>> /\ last.pre.inputValue = <<>>
        THEN /\ Len(value) = Len(last.pre.value) - 1
             /\ \A k \in DOMAIN value : value[k] = last.pre.value[k]
        ELSE /\ last.eff.onChange = <<>>
             /\ value = last.pre.value

\* a removal key with nothing selected, text in the input field and chips
\* in the list
C3_Witness ==
    /\ RemovalKey
    /\ Unselected(last.pre.value) = DOMAIN last.pre.value
    /\ Len(last.pre.value) >= 2
    /\ last.pre.inputValue # <<>>
    /\ value = last.pre.value

\* two chips that agree on every field but selected
SameExceptSelected(a, b) ==
    \A f \in {"id", "label", "value", "disabled"} :
        /\ Has(a, f) <=> Has(b, f)
        /\ Has(a, f) => a[f] = b[f]

\* the positions of the selected chips of a list
Selected(chips) == {i \in DOMAIN chips : IsSelected(chips[i])}

SingleClick == last.ev.op = "chipClick" /\ ~last.ev.multi
MultiClick == last.ev.op = "chipClick" /\ last.ev.multi

\* C4 as stated: after a click without modifier on a chip of the list,
\* exactly one chip is selected, and it is the clicked one.
C4_ExactlyOneSelected ==
    SingleClick =>
        /\ Cardinality(Selected(value)) = 1
        /\ \A i \in Selected(value) : value[i].id = last.ev.chipId

\* C4 amended: after a click without modifier on a chip of the list, the
\* clicked chip has its selected flag inverted and every other chip has
\* selected = false, nothing else changed; so the clicked chip is the only
\* selected one when it was not selected before, and no chip is selected
\* when it was.
C4_InvertTargetClearOthers ==
    SingleClick =>
        /\ Len(value) = Len(last.pre.value)
        /\ \A i \in DOMAIN value :
            /\ SameExceptSelected(value[i], last.pre.value[i])
            /\ Has(value[i], "selected")
            /\ value[i].selected =
                 (value[i].id = last.ev.chipId /\ ~IsSelected(last.pre.value[i]))
        /\ Cardinality(Selected(value)) =
             IF \E i \in Selected(last.pre.value) :
                    last.pre.value[i].id = last.ev.chipId
             THEN 0 ELSE 1

\* a click without modifier on an unselected chip while another chip was
\* selected: the clicked chip is now the only selected one
C4_Witness ==
    /\ SingleClick
    /\ \E i, j \in DOMAIN last.pre.value :
        /\ last.pre.value[i].id = last.ev.chipId
        /\ ~IsSelected(last.pre.value[i])
        /\ j # i
        /\ IsSelected(last.pre.value[j])
        /\ Selected(value) = {i}

\* C5: after a click with Cmd/Ctrl held, the clicked chip has its selected
\* flag inverted and nothing else changed: every other chip is as it was,
\* and so are the length and the order of the list.
C5_MultiSelectTogglesOnlyTarget ==
    MultiClick =>
        /\ Len(value) = Len(last.pre.value)
        /\ \A i \in DOMAIN value :
            IF last.pre.value[i].id = last.ev.chipId
            THEN /\ SameExceptSelected(value[i], last.pre.value[i])
                 /\ IsSelected(value[i]) = ~IsSelected(last.pre.value[i])
            ELSE value[i] = last.pre.value[i]

\* a click with Cmd/Ctrl held on an unselected chip while another chip was
\* selected: both are selected afterwards
C5_Witness ==
    /\ MultiClick
    /\ \E i, j \in DOMAIN last.pre.value :
        /\ last.pre.value[i].id = last.ev.chipId
        /\ ~IsSelected(last.pre.value[i])
        /\ j # i
        /\ IsSelected(last.pre.value[j])
        /\ {i, j} \subseteq Selected(value)

\* toggleChipSelection called with an identifier no chip of the list has
UnknownToggle ==
    /\ last.ev.op = "toggleChipSelection"
    /\ \A i \in DOMAIN last.pre.value : last.pre.value[i].id # last.ev.chipId

\* C6: toggleChipSelection with an identifier not in the list leaves the
\* list as it was when multi-selecting, and otherwise leaves every chip
\* deselected, no chip selected, nothing else changed.
C6_UnknownTarget ==
    UnknownToggle =>
        IF last.ev.multi THEN value = last.pre.value
        ELSE /\ Len(value) = Len(last.pre.value)
             /\ Selected(value) = {}
             /\ \A i \in DOMAIN value :
                    SameExceptSelected(value[i], last.pre.value[i])

\* a single-select toggle of a foreign identifier on a list of two selected
\* chips
C6_Witness ==
    /\ UnknownToggle
    /\ ~last.ev.multi
    /\ Len(last.pre.value) = 2
    /\ Selected(last.pre.value) = {1, 2}
    /\ Selected(value) = {}

SelectAllKey == last.ev.op = "keyDown" /\ last.ev.key = "a" /\ last.ev.mod

\* C7: after Cmd/Ctrl+A every chip of the list has selected = true, whatever
\* its selected and disabled fields were, and nothing else changed: same
\* length, same order, same id, label, value and disabled.
C7_SelectAll ==
    SelectAllKey =>
        /\ Len(value) = Len(last.pre.value)
        /\ \A i \in DOMAIN value :
            /\ Has(value[i], "selected") /\ value[i].selected
            /\ SameExceptSelected(value[i], last.pre.value[i])

\* Cmd/Ctrl+A on a list holding a selected chip and an unselected disabled
\* chip
C7_Witness ==
    /\ SelectAllKey
    /\ \E i, j \in DOMAIN last.pre.value :
        /\ IsSelected(last.pre.value[i])
        /\ ~IsSelected(last.pre.value[j])
        /\ Truthy(last.pre.value[j], "disabled")
    /\ Selected(value) = DOMAIN value

\* the events that call clearSelection and no other list callback: Escape,
\* and the input field gaining the focus (a disabled one cannot)
ClearEvent ==
    \/ last.ev.op = "keyDown" /\ last.ev.key = "Escape"
    \/ last.ev.op = "containerClick" /\ ~last.pre.props.disabled

\* C8: after an event that clears the selection no chip is selected and
\* nothing else changed; every chip has selected = false when some chip was
\* selected before, and when none was, onChange is not called and the list
\* the host holds is the previous one, which differs from the mapped list
\* at most by chips lacking the selected field.
C8_ClearSelection ==
    ClearEvent =>
        /\ Len(value) = Len(last.pre.value)
        /\ \A i \in DOMAIN value :
            /\ SameExceptSelected(value[i], last.pre.value[i])
            /\ ~IsSelected(value[i])
        /\ IF Selected(last.pre.value) # {}
           THEN \A i \in DOMAIN value : Has(value[i], "selected")
           ELSE /\ last.eff.onChange = <<>>
                /\ value = last.pre.value

\* Escape pressed with chips in the list, none selected, one of them
\* without a selected field: nothing is emitted
C8_Witness ==
    /\ last.ev.op = "keyDown" /\ last.ev.key = "Escape"
    /\ Len(last.pre.value) >= 2
    /\ Selected(last.pre.value) = {}
    /\ \E i \in DOMAIN value : ~Has(value[i], "selected")
    /\ last.eff.onChange = <<>>

\* every chip of `chips` is chip-for-chip `from` with selected = flag
AllSetTo(chips, from, flag) ==
    /\ Len(chips) = Len(from)
    /\ \A i \in DOMAIN chips :
        /\ SameExceptSelected(chips[i], from[i])
        /\ Has(chips[i], "selected")
        /\ chips[i].selected = flag

\* C9: clearSelection after selectAllChips yields the list the pair started
\* from with every selected = false; selectAllChips after clearSelection
\* yields it with every selected = true; and a second selectAllChips or a
\* second clearSelection in a row changes nothing.
C9_SelectAllClearPair ==
    /\ (last.ev.op = "clearSelection" /\ before.ev.op = "selectAllChips") =>
            AllSetTo(value, before.pre.value, FALSE)
    /\ (last.ev.op = "selectAllChips" /\ before.ev.op = "clearSelection") =>
            AllSetTo(value, before.pre.value, TRUE)
    /\ (last.ev.op = before.ev.op
            /\ last.ev.op \in {"selectAllChips", "clearSelection"}) =>
            value = last.pre.value

\* clearSelection right after selectAllChips on a list of two chips of
\* which one was selected, the other one being disabled
C9_Witness ==
    /\ last.ev.op = "clearSelection"
    /\ before.ev.op = "selectAllChips"
    /\ Len(before.pre.value) = 2
    /\ Cardinality(Selected(before.pre.value)) = 1
    /\ \E i \in DOMAIN before.pre.value :
            Truthy(before.pre.value[i], "disabled")
    /\ Selected(value) = {}

EnterKey == last.ev.op = "keyDown" /\ last.ev.key = "Enter"

\* C10: after Enter pressed on a text that is empty once trimmed, onAdd was
\* not called, onChange was not called, no identifier was drawn and the
\* list is the previous list.
C10_EmptyTextCreatesNothing ==
    (EnterKey /\ trim(last.pre.inputValue) = <<>>) =>
        /\ last.eff.onAdd = <<>>
        /\ last.eff.onChange = <<>>
        /\ last.eff.uuids = 0
        /\ value = last.pre.value

\* Enter pressed on a text of white space, with an onAdd callback supplied
C10_Witness ==
    /\ EnterKey
    /\ last.pre.inputValue = <<" ">>
    /\ last.pre.props.onAdd
    /\ last.pre.value # <<>>
    /\ value = last.pre.value

\* onAdd was called and returned null: no identifier was drawn for a chip
AddRejected == last.eff.onAdd # <<>> /\ last.eff.uuids = 0

\* onAdd was called and returned a chip
AddAccepted == last.eff.onAdd # <<>> /\ last.eff.uuids = 1

\* the text the creation was requested for: the text of the input field
\* when Enter was pressed, the text before the separator just typed
RequestedText ==
    IF last.ev.op = "inputChange"
    THEN SubSeq(last.ev.text, 1, Len(last.ev.text) - 1)
    ELSE last.pre.inputValue

\* C11: whenever onAdd returned null, by Enter or by a separator, onChange
\* was not called, the list is the previous list and the input field still
\* holds the text the user typed (with or without the separator).
C11_RejectedCreateKeepsText ==
    AddRejected =>
        /\ last.eff.onChange = <<>>
        /\ value = last.pre.value
        /\ \/ inputValue = RequestedText
           \/ last.ev.op = "inputChange" /\ inputValue = last.ev.text

\* C12: whenever onAdd returned a chip, by Enter or by a separator, onAdd
\* was called once with the trimmed text, the list is the previous list with
\* selected = false on every chip, nothing else changed, followed by the
\* host's new chip as its last element, and the input field is empty.
C12_CreateSuccess ==
    AddAccepted =>
        /\ last.eff.onAdd = <<trim(RequestedText)>>
        /\ AllSetTo(SubSeq(value, 1, Len(value) - 1), last.pre.value, FALSE)
        /\ Len(value) = Len(last.pre.value) + 1
        /\ LET newChip == value[Len(value)] IN
            /\ newChip = createChip(trim(RequestedText), newChip.id)
            /\ \A i \in DOMAIN last.pre.value : last.pre.value[i].id # newChip.id
        /\ inputValue = <<>>

\* Enter pressed on a text with leading white space while a chip was
\* selected: the chip is appended under the trimmed label
C12_Witness ==
    /\ EnterKey
    /\ AddAccepted
    /\ last.pre.inputValue = <<" ", "a">>
    /\ Selected(last.pre.value) # {}
    /\ Len(value) = Len(last.pre.value) + 1
    /\ value[Len(value)].label = <<"a">>
    /\ Selected(value) = {}

PasteEvent == last.ev.op = "paste"

\* what the host's onPaste returned for the pasted text
PastedChips == App_handlePaste(last.ev.text, uuidCount - last.eff.uuids)

\* C13: after a paste for which onPaste returned a non-empty list, the list
\* is the previous list with selected = false on every chip, nothing else
\* changed, followed by the returned chips in their order; after a paste for
\* which it returned null or an empty list, onChange was not called and the
\* list is the previous list, its selection included.
C13_AppendPasted ==
    PasteEvent =>
        IF PastedChips.ok /\ Len(PastedChips.chips) > 0
        THEN /\ Len(value) = Len(last.pre.value) + Len(PastedChips.chips)
             /\ AllSetTo(SubSeq(value, 1, Len(last.pre.value)),
                         last.pre.value, FALSE)
             /\ SubSeq(value, Len(last.pre.value) + 1, Len(value))
                    = PastedChips.chips
        ELSE /\ last.eff.onChange = <<>>
             /\ value = last.pre.value

\* two chips pasted from a plain text into a list whose only chip was
\* selected
C13_Witness ==
    /\ PasteEvent
    /\ Len(last.pre.value) = 1
    /\ Selected(last.pre.value) = {1}
    /\ Len(PastedChips.chips) = 2
    /\ Len(value) = 3
    /\ Selected(value) = {}
    /\ value[2].label = <<"a">>
    /\ value[3].label = <<"b">>

\* C14: after a paste for which onPaste returned null, the handler ran to
\* its end without calling onChange or setInputValue: the list is the
\* previous list, its selection included, and the input field holds the
\* previous text.
C14_RejectedPaste ==
    (PasteEvent /\ ~PastedChips.ok) =>
        /\ last.eff.onPaste = <<last.ev.text>>
        /\ last.eff.onChange = <<>>
        /\ last.eff.setInputValue = <<>>
        /\ value = last.pre.value
        /\ inputValue = last.pre.inputValue

\* a paste of a marked text that is not JSON while a chip was selected and
\* the input field held text
C14_Witness ==
    /\ PasteEvent
    /\ startsWith(last.ev.text, CLIPBOARD_MARKER)
    /\ PastedChips.log = "error"
    /\ Selected(last.pre.value) # {}
    /\ last.pre.inputValue # <<>>
    /\ inputValue = last.pre.inputValue
    /\ Selected(value) = Selected(last.pre.value)

\* the identifiers of the chips of a list
IdsOf(chips) == {chips[i].id : i \in DOMAIN chips}

\* `after` is `prev` with some chips deleted, the others kept in their order
\* and unchanged but for selected, followed by chips `prev` did not hold
Evolves(prev, after) ==
    \E keep \in SUBSET DOMAIN prev :
        /\ Cardinality(keep) <= Len(after)
        /\ \A j \in 1..Cardinality(keep) :
            SameExceptSelected(after[j], prev[Nth(keep, j)])
        /\ \A j \in (Cardinality(keep) + 1)..Len(after) :
            after[j].id \notin IdsOf(prev)

\* C15: after any of the six list operations, every list it passed to
\* onChange, and so the list the host holds, is the previous list with some
\* chips deleted, the surviving chips in their previous order with their id,
\* label, value and disabled unchanged, followed by chips that are new to
\* the list; and the operation stored nothing into the array it was given.
C15_ListEvolution ==
    last.ev.op # "mount" =>
        /\ \A k \in DOMAIN last.eff.onChange :
            Evolves(last.pre.value, last.eff.onChange[k])
        /\ Evolves(last.pre.value, value)
        /\ last.eff.written = <<>>

\* a removal that deleted the selected first chip of three and kept the
\* other two in order
C15_Witness ==
    /\ last.ev.op = "removeChips"
    /\ Len(last.pre.value) = 3
    /\ Selected(last.pre.value) = {1}
    /\ Len(value) = 2
    /\ value[1].id = last.pre.value[2].id
    /\ value[2].id = last.pre.value[3].id
    /\ last.eff.written = <<>>

\* the clipboard holds the text serialize returned for the list
Serialized == last.ev.op \in {"serialize", "deserialize"}

\* a text has been deserialized
DecodeEvent ==
    last.ev.op \in {"deserialize", "deserializeForeign", "deserializePlain",
                    "deserializePlainText"}

\* the text after the marker, read as JSON
Payload ==
    JSONparse(SubSeq(clipboard, Len(CLIPBOARD_MARKER) + 1, Len(clipboard)))

KeyVersion == <<"v", "e", "r", "s", "i", "o", "n">>
KeyChips == <<"c", "h", "i", "p", "s">>
KeyId == <<"i", "d">>
KeyLabel == <<"l", "a", "b", "e", "l">>
KeyValue == <<"v", "a", "l", "u", "e">>

KeyOf(f) ==
    CASE f = "id" -> KeyId [] f = "label" -> KeyLabel [] f = "value" -> KeyValue

\* the id, label and value of a chip, without its flags
Projection(chip) ==
    [f \in DOMAIN chip \cap {"id", "label", "value"} |-> chip[f]]

\* a chip with its selected and disabled flags inverted
FlagsInverted(chip) ==
    Spread(Spread(chip, "selected", ~Truthy(chip, "selected")),
           "disabled", ~Truthy(chip, "disabled"))

\* C16: the text serialize returns is the marker followed by a JSON object
\* with the two members version = 1 and chips, chips an array holding, per
\* chip and in order, an object with the chip's id, label and value (when it
\* has one) and nothing else; so the text is the one returned for the list
\* stripped of its flags, and for the list with every flag inverted.
C16_EncodeFormat ==
    Serialized =>
        /\ startsWith(clipboard, CLIPBOARD_MARKER)
        /\ Payload.ok
        /\ Payload.v.t = "obj"
        /\ DOMAIN Payload.v.v = {KeyVersion, KeyChips}
        /\ Payload.v.v[KeyVersion] = JNum(1, 0)
        /\ Payload.v.v[KeyChips].t = "arr"
        /\ LET elems == Payload.v.v[KeyChips].v IN
            /\ Len(elems) = Len(value)
            /\ \A k \in DOMAIN value :
                /\ elems[k].t = "obj"
                /\ DOMAIN elems[k].v =
                     {KeyOf(f) : f \in DOMAIN Projection(value[k])}
                /\ \A f \in DOMAIN Projection(value[k]) :
                     elems[k].v[KeyOf(f)] = JStr(value[k][f])
        /\ clipboard = serialize([k \in DOMAIN value |-> Projection(value[k])])
        /\ clipboard = serialize([k \in DOMAIN value |-> FlagsInverted(value[k])])

\* the serialized text of a selected chip without value followed by a
\* disabled chip with one
C16_Witness ==
    /\ last.ev.op = "serialize"
    /\ Len(value) = 2
    /\ IsSelected(value[1])
    /\ ~Has(value[1], "value")
    /\ Truthy(value[2], "disabled")
    /\ Has(value[2], "value")
    /\ Len(Payload.v.v[KeyChips].v) = 2

Reverse(chips) == [k \in DOMAIN chips |-> chips[Len(chips) + 1 - k]]

\* C17: the text serialize returned for a list is the text it returns for
\* that list again, and differs from the text it returns for the reversed
\* list whenever the list holds two or more chips (all of distinct ids).
C17_OrderSensitive ==
    Serialized =>
        /\ clipboard = serialize(value)
        /\ Len(value) >= 2 => clipboard # serialize(Reverse(value))

\* two chips of the same label serialized
C17_Witness ==
    /\ last.ev.op = "serialize"
    /\ Len(value) = 2
    /\ value[1].label = value[2].label
    /\ value[1].id # value[2].id
    /\ clipboard # serialize(Reverse(value))

\* C18: when a marked text was deserialized to a list, the list holds one
\* chip per element of the payload's chips, in order: its label is the
\* element's label, its value the element's value if it has one that is not
\* null and else the label, selected and disabled are false, and its id is
\* no id of the payload and no id of another chip of the result.
C18_StructuredDecode ==
    (DecodeEvent /\ startsWith(clipboard, CLIPBOARD_MARKER) /\ decoded.ok) =>
        /\ Payload.ok
        /\ NumEquals(Payload.v.v[KeyVersion], 1)
        /\ LET elems == Payload.v.v[KeyChips].v IN
            /\ Len(decoded.chips) = Len(elems)
            /\ \A k \in DOMAIN elems :
                LET e == elems[k]
                    c == decoded.chips[k]
                IN  /\ Has(c, "label") <=> HasProp(e, KeyLabel)
                    /\ HasProp(e, KeyLabel) =>
                            c.label = FieldOf(e.v[KeyLabel])
                    /\ IF HasProp(e, KeyValue) /\ e.v[KeyValue].t # "null"
                       THEN Has(c, "value") /\ c.value = FieldOf(e.v[KeyValue])
                       ELSE IF HasProp(e, KeyLabel)
                       THEN Has(c, "value") /\ c.value = c.label
                       ELSE ~Has(c, "value")
                    /\ c.selected = FALSE
                    /\ c.disabled = FALSE
                    /\ \A j \in DOMAIN elems :
                        /\ HasProp(elems[j], KeyId) =>
                                c.id # FieldOf(elems[j].v[KeyId])
                        /\ j # k => c.id # decoded.chips[j].id

\* a foreign payload of two elements decoded: one without label, one with
\* an empty value, both under the same serialized id
C18_Witness ==
    /\ last.ev.op = "deserializeForeign"
    /\ decoded.ok
    /\ Len(decoded.chips) = 2
    /\ ~Has(decoded.chips[1], "label")
    /\ Has(decoded.chips[1], "value")
    /\ Has(decoded.chips[2], "label")
    /\ decoded.chips[1].value = <<"v">>
    /\ decoded.chips[2].label = <<"b">>
    /\ decoded.chips[2].value = <<>>
    /\ decoded.chips[1].id # decoded.chips[2].id

\* the payload is not JSON, not an object, or lacks a numeric version or an
\* array of chips
Malformed ==
    \/ ~Payload.ok
    \/ Payload.v.t # "obj"
    \/ ~(HasProp(Payload.v, KeyVersion) /\ Payload.v.v[KeyVersion].t = "num")
    \/ ~(HasProp(Payload.v, KeyChips) /\ Payload.v.v[KeyChips].t = "arr")

\* C20: a marked text whose payload is malformed deserializes to null: no
\* chip is produced and no identifier drawn, also when the text read as
\* comma-separated labels would have given chips.
C20_MalformedPayload ==
    (DecodeEvent /\ startsWith(clipboard, CLIPBOARD_MARKER) /\ Malformed) =>
        /\ ~decoded.ok
        /\ decoded.chips = <<>>
        /\ decoded.uuids = 0

\* a marked text that is not JSON and that the plain-text reading would
\* have split into labels
C20_Witness ==
    /\ last.ev.op = "deserializeForeign"
    /\ ~Payload.ok
    /\ deserializePlainTextFallback(clipboard, uuidCount).ok
    /\ ~decoded.ok

\* no two chips of the list have the same id
UniqueIds(chips) ==
    \A i, j \in DOMAIN chips : i # j => chips[i].id # chips[j].id

\* C19: after a paste into a list of unique ids, of a text copied from this
\* list or coming from elsewhere, the ids of the list are unique: no pasted
\* chip has the id of a chip the list held or of another pasted chip.
C19_NoIdCollision ==
    (PasteEvent /\ UniqueIds(last.pre.value)) =>
        /\ UniqueIds(value)
        /\ \A k \in (Len(last.pre.value) + 1)..Len(value) :
            value[k].id \notin IdsOf(last.pre.value)

\* the copy of a chip of the list, itself pasted earlier, pasted back into
\* the list
C19_Witness ==
    /\ PasteEvent
    /\ \E i \in DOMAIN last.pre.value :
        /\ last.pre.value[i].id = randomUUID(1)
        /\ last.ev.text = App_handleCopy(<<last.pre.value[i]>>)
    /\ Len(value) = Len(last.pre.value) + 1
    /\ UniqueIds(value)

\* the payload is a JSON object whose version is a number other than the
\* supported one
OtherVersion ==
    /\ Payload.ok
    /\ HasProp(Payload.v, KeyVersion)
    /\ Payload.v.v[KeyVersion].t = "num"
    /\ ~NumEquals(Payload.v.v[KeyVersion], CLIPBOARD_VERSION)

\* C21: a marked text whose payload carries a version other than 1
\* deserializes to null, whatever else the payload holds: no chip is
\* produced, no identifier drawn, and the rejection is reported by the
\* warning, which no malformed payload raises.
C21_VersionNegotiation ==
    (DecodeEvent /\ startsWith(clipboard, CLIPBOARD_MARKER)) =>
        /\ OtherVersion =>
                /\ ~decoded.ok
                /\ decoded.chips = <<>>
                /\ decoded.uuids = 0
                /\ decoded.log = "warn"
        /\ Malformed /\ ~OtherVersion => decoded.log # "warn"

\* the positions of the commas of a text, with the positions before its
\* first and after its last character
Cuts(text) == {0, Len(text) + 1} \cup {i \in DOMAIN text : text[i] = ","}

\* the k-th comma-separated segment of a text, trimmed
Segment(text, k) ==
    trim(SubSeq(text, Nth(Cuts(text), k) + 1, Nth(Cuts(text), k + 1) - 1))

\* the ranks of the segments of a text that are not empty once trimmed
Kept(text) ==
    {k \in 1..(Cardinality(Cuts(text)) - 1) : Segment(text, k) # <<>>}

\* the identifiers randomUUID had issued before the last event
IssuedBefore == {randomUUID(j) : j \in 1..(uuidCount - decoded.uuids)}

\* C22: a text without the marker deserializes to null exactly when none of
\* its comma-separated segments is non-empty once trimmed; otherwise to one
\* chip per such segment, in order, whose label and value are the trimmed
\* segment, selected and disabled false, under an id not issued before and
\* not shared; so the result is never empty and no label is empty, holds a
\* comma, or starts or ends with whitespace.
C22_PlainTextFallback ==
    (DecodeEvent /\ ~startsWith(clipboard, CLIPBOARD_MARKER)) =>
        /\ decoded.ok <=> Kept(clipboard) # {}
        /\ Len(decoded.chips) = Cardinality(Kept(clipboard))
        /\ \A k \in DOMAIN decoded.chips :
            LET c == decoded.chips[k] IN
            /\ c.label = Segment(clipboard, Nth(Kept(clipboard), k))
            /\ c.value = c.label
            /\ c.selected = FALSE
            /\ c.disabled = FALSE
            /\ c.id \notin IssuedBefore
            /\ \A j \in DOMAIN decoded.chips : j # k => decoded.chips[j].id # c.id
            /\ c.label # <<>>
            /\ \A i \in DOMAIN c.label : c.label[i] # ","
            /\ c.label[1] \notin Whitespace
            /\ c.label[Len(c.label)] \notin Whitespace

\* a text of three segments, the first padded with a blank and the second
\* empty, deserialized to the chips a and b
C22_Witness ==
    /\ last.ev.op = "deserializePlain"
    /\ clipboard = <<"a", " ", ",", ",", "b">>
    /\ decoded.ok
    /\ Len(decoded.chips) = 2
    /\ decoded.chips[1].label = <<"a">>
    /\ decoded.chips[2].label = <<"b">>

\* C23: the text serialize returns for the empty list deserializes to a
\* success holding no chip, not to null; a paste of it calls onChange not at
\* all, so the list is the previous list, its selection included.
C23_EmptyRoundTrip ==
    (PasteEvent /\ last.ev.text = serialize(<<>>)) =>
        /\ PastedChips.ok
        /\ PastedChips.chips = <<>>
        /\ last.eff.onPaste = <<last.ev.text>>
        /\ last.eff.onChange = <<>>
        /\ value = last.pre.value

\* the serialized empty list pasted into a list holding a selected chip
C23_Witness ==
    /\ PasteEvent
    /\ last.ev.text = serialize(<<>>)
    /\ PastedChips.ok
    /\ Selected(last.pre.value) # {}
    /\ value = last.pre.value

\* C24: no text makes deserialize raise: every call returns a list or
\* null, and a malformed payload, a payload of another version and a text
\* without a label all give null, which holds no chip.
C24_NeverRaises ==
    DecodeEvent =>
        /\ ~decoded.raised
        /\ ~decoded.ok => decoded.chips = <<>>
        /\ IF startsWith(clipboard, CLIPBOARD_MARKER)
           THEN (Malformed \/ OtherVersion) => ~decoded.ok
           ELSE Kept(clipboard) = {} => ~decoded.ok

\* a payload whose second element is null: the TypeError of the map is
\* caught after two identifiers were drawn, and null returned
C24_Witness ==
    /\ last.ev.op = "deserializeForeign"
    /\ ~Malformed
    /\ ~OtherVersion
    /\ decoded.log = "error"
    /\ decoded.uuids = 2
    /\ ~decoded.ok
    /\ ~decoded.raised

\* C25: after a Backspace pressed while no chip was selected and the input
\* field held text, onChange was not called, the list is the previous
\* list, and preventDefault was not called, so that the key deletes text
\* as in any text field.
C25_BackspaceDeletesText ==
    (/\ last.ev.op = "keyDown"
     /\ last.ev.key = "Backspace"
     /\ Selected(last.pre.value) = {}
     /\ last.pre.inputValue # <<>>) =>
        /\ last.eff.onChange = <<>>
        /\ value = last.pre.value
        /\ ~last.eff.preventDefault

\* an event of the user handled by the component
UserEvent ==
    last.ev.op \in {"chipClick", "containerClick", "keyDown", "inputChange",
                    "paste"}

\* C26: while the disabled prop is true no event of the user (a click on a
\* chip, a key, a paste, typing) makes the component call onChange, onCopy,
\* onPaste or onAdd.
C26_DisabledComponent ==
    (UserEvent /\ last.pre.props.disabled) =>
        /\ last.eff.onChange = <<>>
        /\ last.eff.onCopy = <<>>
        /\ last.eff.onPaste = <<>>
        /\ last.eff.onAdd = <<>>

\* the positions of the chips of a list whose disabled flag is true
Disabled(chips) == {i \in DOMAIN chips : Truthy(chips[i], "disabled")}

\* the event is a click on the chip at position i of the previous list
ClickOn(i) ==
    /\ last.ev.op = "chipClick"
    /\ last.ev.chipId = last.pre.value[i].id

\* C27 as stated: a chip whose disabled flag is true keeps its selected
\* flag when it is clicked and stays in the list at a removal.
C27_DisabledTokenProtected ==
    (UserEvent /\ last.ev.op \in {"chipClick", "keyDown"}) =>
        \A i \in Disabled(last.pre.value) :
            /\ ClickOn(i) =>
                    IsSelected(value[i]) = IsSelected(last.pre.value[i])
            /\ RemovalKey => last.pre.value[i].id \in IdsOf(value)

\* C27 amended: the disabled flag of a chip protects it from nothing: a
\* click on the chip inverts its selected flag, a removal key deletes it
\* when it is selected, and when no chip is selected and the input field
\* is empty deletes it if it is the last chip.
C27_DisabledTokenUnprotected ==
    (UserEvent /\ last.ev.op \in {"chipClick", "keyDown"}) =>
        \A i \in Disabled(last.pre.value) :
            /\ ClickOn(i) =>
                    IsSelected(value[i]) # IsSelected(last.pre.value[i])
            /\ (RemovalKey /\ i \in Selected(last.pre.value)) =>
                    last.pre.value[i].id \notin IdsOf(value)
            /\ (/\ RemovalKey
                /\ Selected(last.pre.value) = {}
                /\ last.pre.inputValue = <<>>
                /\ i = Len(last.pre.value)) =>
                    last.pre.value[i].id \notin IdsOf(value)

\* a removal key deleting the selected, disabled second chip of a list
\* and keeping the first
C27_Witness ==
    /\ RemovalKey
    /\ 2 \in Disabled(last.pre.value)
    /\ Selected(last.pre.value) = {2}
    /\ IdsOf(value) = {last.pre.value[1].id}

\* the copy shortcut was pressed
CopyKey == last.ev.op = "keyDown" /\ last.ev.key = "c" /\ last.ev.mod

\* C28: after the copy shortcut pressed while chips were selected, onCopy
\* was called once with exactly the selected chips in their order in the
\* list, and the chips of the payload on the clipboard carry their ids in
\* that order; pressed while no chip was selected, onCopy was not called;
\* in both cases onChange was not called and the list is the previous
\* list, its selection included.
C28_Copy ==
    CopyKey =>
        /\ last.eff.onChange = <<>>
        /\ value = last.pre.value
        /\ IF Selected(last.pre.value) = {}
           THEN last.eff.onCopy = <<>>
           ELSE /\ Len(last.eff.onCopy) = 1
                /\ DOMAIN last.eff.onCopy[1]
                        = 1..Cardinality(Selected(last.pre.value))
                /\ \A k \in DOMAIN last.eff.onCopy[1] :
                    /\ last.eff.onCopy[1][k]
                            = last.pre.value[Nth(Selected(last.pre.value), k)]
                    /\ FieldOf(Payload.v.v[KeyChips].v[k].v[KeyId])
                            = last.pre.value[Nth(Selected(last.pre.value), k)].id
                /\ Len(Payload.v.v[KeyChips].v) = Len(last.eff.onCopy[1])

\* the first and the third chip of a list of three copied
C28_Witness ==
    /\ CopyKey
    /\ Len(last.pre.value) = 3
    /\ Selected(last.pre.value) = {1, 3}
    /\ last.eff.onCopy = <<<<last.pre.value[1], last.pre.value[3]>>>>
    /\ clipboard = serialize(<<value[1], value[3]>>)

\* C29: when the chips S selected in the first ChipInput have been copied
\* and the clipboard is pasted into the second, the step leaves the second
\* with its previous list, every chip deselected, followed by one new chip
\* per chip of S, in order, with the label and the value of that chip and
\* an id that neither instance held; the list and the text of the first
\* and the clipboard are unchanged by the step.
C29_CrossInstance ==
    [][(/\ last'.ev.op = "paste"
        /\ idle.id = 1
        /\ selectedChips(idle) # <<>>
        /\ clipboard = App_handleCopy(selectedChips(idle))) =>
            /\ Len(value') = Len(value) + Len(selectedChips(idle))
            /\ AllSetTo(SubSeq(value', 1, Len(value)), value, FALSE)
            /\ \A k \in DOMAIN selectedChips(idle) :
                LET c == value'[Len(value) + k]
                    from == selectedChips(idle)[k]
                IN  /\ c.label = from.label
                    /\ ValueOf(c) = ValueOf(from)
                    /\ ~IsSelected(c)
                    /\ c.id \notin IdsOf(idle.value) \cup IdsOf(value)
            /\ idle' = idle
            /\ clipboard' = clipboard]_vars

\* two chips copied in the first ChipInput and pasted into the second,
\* whose only chip was selected
C29_Witness ==
    /\ PasteEvent
    /\ idle.id = 1
    /\ Len(selectedChips(idle)) = 2
    /\ last.ev.text = App_handleCopy(selectedChips(idle))
    /\ Len(last.pre.value) = 1
    /\ Selected(last.pre.value) = {1}
    /\ Len(value) = 3
    /\ Selected(value) = {}
    /\ value[2].label = idle.value[1].label
    /\ value[3].value = idle.value[2].value

\* the chips of a list that are not selected, in their order
UnselectedChips(chips) ==
    [k \in 1..Cardinality(Unselected(chips)) |-> chips[Nth(Unselected(chips), k)]]

\* a list without its last chip
AllButLast(chips) == SubSeq(chips, 1, Len(chips) - 1)

EscapeKey == last.ev.op = "keyDown" /\ last.ev.key = "Escape"

\* C31: after Escape pressed in the input field the field is empty and no
\* chip is selected, and the list holds the chips it held, in their order,
\* changed in nothing but their selected flag.
C31_EscapeClears ==
    EscapeKey =>
        /\ inputValue = <<>>
        /\ Selected(value) = {}
        /\ Len(value) = Len(last.pre.value)
        /\ \A i \in DOMAIN value :
                SameExceptSelected(value[i], last.pre.value[i])

\* Escape pressed while the input field held text and a chip of two was
\* selected
C31_Witness ==
    /\ EscapeKey
    /\ last.pre.inputValue # <<>>
    /\ Len(last.pre.value) = 2
    /\ Cardinality(Selected(last.pre.value)) = 1
    /\ inputValue = <<>>
    /\ Selected(value) = {}

\* the input field has received the focus: the last event moved it there
FocusEvent ==
    /\ last.ev.op = "containerClick"
    /\ ~last.pre.focused
    /\ focused

\* C32: once the input field has received the focus and the host holds the
\* list the focus handler emitted, no chip is selected, and the list holds
\* the chips it held, in their order.
C32_FocusClearsSelection ==
    FocusEvent =>
        /\ Selected(value) = {}
        /\ Len(value) = Len(last.pre.value)
        /\ \A i \in DOMAIN value :
                SameExceptSelected(value[i], last.pre.value[i])
        /\ Selected(last.pre.value) # {} => last.eff.onChange = <<value>>

\* the focus moving into the input field of a list whose two chips were
\* selected
C32_Witness ==
    /\ FocusEvent
    /\ Selected(last.pre.value) = {1, 2}
    /\ Selected(value) = {}
    /\ last.eff.onChange = <<value>>

\* the text begins with the fourteen characters __CHIPINPUT__:
HasMarkerPrefix(text) ==
    /\ Len(text) >= 14
    /\ \A i \in 1..14 :
        text[i] = <<"_", "_", "C", "H", "I", "P", "I", "N", "P", "U", "T",
                    "_", "_", ":">>[i]

\* C33: isChipInputFormat holds of a text exactly when the text starts with
\* the marker; it holds of every text serialize returns; and deserialize
\* returns what deserializeChipInputFormat returns for the texts of which
\* it holds and what deserializePlainTextFallback returns for the others.
C33_RecognizedFormat ==
    /\ Serialized => isChipInputFormat(clipboard)
    /\ (Serialized \/ DecodeEvent) =>
            (isChipInputFormat(clipboard) <=> HasMarkerPrefix(clipboard))
    /\ DecodeEvent =>
            decoded = IF isChipInputFormat(clipboard)
                      THEN deserializeChipInputFormat(
                               clipboard, uuidCount - decoded.uuids)
                      ELSE deserializePlainTextFallback(
                               clipboard, uuidCount - decoded.uuids)

\* a serialized list behind a blank: not recognized, and read as two
\* comma-separated labels
C33_Witness ==
    /\ last.ev.op = "deserializePlain"
    /\ clipboard = <<" ">> \o serialize(<<>>)
    /\ ~isChipInputFormat(clipboard)
    /\ decoded.ok
    /\ Len(decoded.chips) = 2
    /\ startsWith(decoded.chips[1].label, CLIPBOARD_MARKER)

\* the clipboard holds the text toPlainText returned for the list
PlainTextWritten == last.ev.op \in {"toPlainText", "deserializePlainText"}

\* the number of characters of the text before the label of chip k
RECURSIVE Offset(_, _)
Offset(chips, k) ==
    IF k = 1 THEN 0
    ELSE Offset(chips, k - 1) + Len(chips[k - 1].label) + 2

\* C34: the text toPlainText returns for a list is empty for the empty
\* list, the label for a list of one chip, and in general the labels in
\* list order, each but the first preceded by a comma and a blank, and
\* nothing else.
C34_ToPlainText ==
    PlainTextWritten =>
        /\ value = <<>> => clipboard = <<>>
        /\ Len(value) = 1 => clipboard = value[1].label
        /\ value # <<>> =>
                Len(clipboard) = Offset(value, Len(value))
                                    + Len(value[Len(value)].label)
        /\ \A k \in DOMAIN value :
            /\ SubSeq(clipboard, Offset(value, k) + 1,
                      Offset(value, k) + Len(value[k].label))
                    = value[k].label
            /\ k > 1 =>
                    /\ clipboard[Offset(value, k) - 1] = ","
                    /\ clipboard[Offset(value, k)] = " "

\* the text of a list of two chips whose labels themselves hold a comma
\* and a blank
C34_Witness ==
    /\ last.ev.op = "toPlainText"
    /\ Len(value) = 2
    /\ value[1].label = <<"a", ",">>
    /\ value[2].label = <<" ", "a">>
    /\ clipboard = <<"a", ",", ",", " ", " ", "a">>

\* a label that is not empty, holds no comma and neither starts nor ends
\* with whitespace
PlainLabel(label) ==
    /\ label # <<>>
    /\ \A i \in DOMAIN label : label[i] # ","
    /\ label[1] \notin Whitespace
    /\ label[Len(label)] \notin Whitespace

\* C37: when the text toPlainText returned for a non-empty list of plain
\* labels does not start with the marker, deserializing it succeeds with
\* one chip per chip of the list, in order, carrying that chip's label as
\* its label and as its value.
C37_DisplayTextRoundTrip ==
    (/\ last.ev.op = "deserializePlainText"
     /\ value # <<>>
     /\ \A k \in DOMAIN value : PlainLabel(value[k].label)
     /\ ~startsWith(clipboard, CLIPBOARD_MARKER)) =>
        /\ decoded.ok
        /\ Len(decoded.chips) = Len(value)
        /\ \A k \in DOMAIN value :
            /\ decoded.chips[k].label = value[k].label
            /\ decoded.chips[k].value = value[k].label

\* the text of a list of a two-word label and a one-letter label read back
C37_Witness ==
    /\ last.ev.op = "deserializePlainText"
    /\ Len(value) = 2
    /\ value[1].label = <<"a", " ", "a">>
    /\ value[2].label = <<"a">>
    /\ decoded.ok
    /\ Len(decoded.chips) = 2
    /\ decoded.chips[1].label = <<"a", " ", "a">>

\* Backspace was pressed in the input field while it was empty
BackspaceOnEmpty ==
    /\ last.ev.op = "keyDown"
    /\ last.ev.key = "Backspace"
    /\ last.pre.inputValue = <<>>

\* C35: a Backspace pressed in the empty input field of a non-empty list
\* runs removeChips twice, from the input's handler and from the
\* container's, on the same list: onChange is called twice with equal
\* lists, and the list the host ends with is the previous list after one
\* removal, without its selected chips or, none being selected, without
\* its last chip alone.
C35_DoubleDispatch ==
    (BackspaceOnEmpty /\ last.pre.value # <<>>) =>
        /\ Len(last.eff.onChange) = 2
        /\ last.eff.onChange[1] = last.eff.onChange[2]
        /\ value = last.eff.onChange[2]
        /\ value = IF Selected(last.pre.value) # {}
                   THEN UnselectedChips(last.pre.value)
                   ELSE AllButLast(last.pre.value)

\* Backspace in the empty field of a list of two chips, none selected:
\* two calls of onChange, one chip removed
C35_Witness ==
    /\ BackspaceOnEmpty
    /\ Len(last.pre.value) = 2
    /\ Selected(last.pre.value) = {}
    /\ Len(last.eff.onChange) = 2
    /\ value = <<last.pre.value[1]>>

\* C36: right after removeChips called while chips were selected, and
\* right after a handlePaste that appended the chips deserialize returned,
\* no chip of the list is selected.
C36_NoSelectionLeft ==
    /\ (last.ev.op = "removeChips" /\ Selected(last.pre.value) # {}) =>
            /\ last.eff.onChange # <<>>
            /\ Selected(value) = {}
    /\ (last.ev.op = "handlePaste" /\ last.eff.onChange # <<>>) =>
            /\ Len(value) > Len(last.pre.value)
            /\ Selected(value) = {}

\* a text of two labels pasted into a list whose only chip was selected
C36_Witness ==
    /\ last.ev.op = "handlePaste"
    /\ Selected(last.pre.value) = {1}
    /\ Len(last.pre.value) = 1
    /\ Len(value) = 3
    /\ Selected(value) = {}

EndsWithSeparator(text) ==
    text # <<>> /\ text[Len(text)] \in props.separators

====
